---- MODULE Spec2Model ----
(***************************************************************************)
(* Backtest execution engine of the stock analysis tool                    *)
(* (src/src/core/backtest/engine.py): BacktestEngine.run replays a signal  *)
(* series over a bar series, bar by bar, into a trade log and an equity    *)
(* curve; BacktestEngine.run_backtest wraps a strategy call and run.       *)
(*                                                                         *)
(* Money and share amounts are Python floats in the source; the model      *)
(* carries them as exact rationals <<numerator, denominator>>.  Bars are   *)
(* numbered 0..n-1 as in the source's positional indexing.                 *)
(***************************************************************************)
EXTENDS Integers, Sequences, FiniteSets, TLC

VARIABLES
    df,      \* the bar series: [0..n-1 -> [Open, Close]]
    runs,    \* the engine calls under way, made one after the other
    eng,     \* per call: the arguments and locals of run / run_backtest
    calls    \* the calls of compute_signals and compute_metrics under way:
             \* per call its arguments, locals, position and result

vars == <<df, runs, eng, calls>>

----------------------------------------------------------------------------
(* Bounds of the model *)

MaxBars == 4

\* bars of the series two calls are compared on
MaxBarsPair == 3

\* the bars a series is drawn from: a rising, a falling and a flat session
BarValues ==
    {[Open |-> 1, Close |-> 2], [Open |-> 2, Close |-> 1], [Open |-> 2, Close |-> 2]}
CapitalValues == {100}
\* <<fee_bps, slippage_bps>>: no cost, and the defaults of run
CostValues == {<<0, 0>>, <<10, 10>>}

----------------------------------------------------------------------------
(* Exact rational arithmetic standing for the source's float arithmetic *)

Abs(x) == IF x < 0 THEN -x ELSE x

RECURSIVE GCD(_, _)
GCD(a, b) == IF b = 0 THEN a ELSE GCD(b, a % b)

Norm(n, d) ==
    IF n = 0 THEN <<0, 1>>
    ELSE LET g == GCD(Abs(n), d) IN <<n \div g, d \div g>>

Rat(x) == <<x, 1>>
Zero == <<0, 1>>

RatMul(a, b) ==
    IF a[1] = 0 \/ b[1] = 0 THEN Zero
    ELSE LET g1 == GCD(Abs(a[1]), b[2])
             g2 == GCD(Abs(b[1]), a[2])
         IN <<(a[1] \div g1) * (b[1] \div g2), (a[2] \div g2) * (b[2] \div g1)>>

\* b > 0 in every use: prices are positive and costs stay below 100%
RatDiv(a, b) == RatMul(a, <<b[2], b[1]>>)

RatAdd(a, b) ==
    IF a[1] = 0 THEN b
    ELSE IF b[1] = 0 THEN a
    ELSE LET g == GCD(a[2], b[2])
         IN Norm(a[1] * (b[2] \div g) + b[1] * (a[2] \div g), (a[2] \div g) * b[2])

RatSub(a, b) == RatAdd(a, <<-b[1], b[2]>>)

RatPos(a) == a[1] > 0

\* a < b for non-negative rationals, by continued fractions (no large products)
RECURSIVE RatLess(_, _)
RatLess(a, b) ==
    LET qa == a[1] \div a[2]
        qb == b[1] \div b[2]
        ra == a[1] % a[2]
        rb == b[1] % b[2]
    IN IF qa # qb THEN qa < qb
       ELSE IF rb = 0 THEN FALSE
       ELSE IF ra = 0 THEN TRUE
       ELSE RatLess(<<b[2], rb>>, <<a[2], ra>>)

RatLeq(a, b) == a = b \/ RatLess(a, b)

----------------------------------------------------------------------------
(* Inputs *)

Actions == {"BUY", "SELL", "HOLD"}

\* the n-bar series
BarSeries(n) == [0..(n - 1) -> BarValues]

\* a signal row: the engine is handed the strategy's whole output frame
\* (stop and target 0: no level, the NaN of a HOLD row)
PlainMeta == [confidence |-> 0, stop |-> 0, target |-> 0, size |-> 1]
LevelMeta == [confidence |-> 1, stop |-> 2, target |-> 3, size |-> 2]

Row(a, m) ==
    [action |-> a, confidence |-> m.confidence, stop |-> m.stop,
     target |-> m.target, size |-> m.size]

SignalRows == {Row(a, PlainMeta) : a \in Actions}

\* signal series over the dates lo..hi-1 (a strategy trims the first lo rows)
SignalSeriesOver(rows, hi) ==
    UNION {[lo..(hi - 1) -> rows] : lo \in 0..hi}

Len0(f) == Cardinality(DOMAIN f)

----------------------------------------------------------------------------
(* BacktestEngine.run *)

BpsDenominator == 10000

\* a reindex that fills the missing bars with BUY
SignalFillBuy(sig, t) == IF t \in DOMAIN sig THEN sig[t].action ELSE "BUY"

\* data["signal"] = sig["action"].reindex(data.index).fillna("HOLD")
Signal(sig, t) == IF t \in DOMAIN sig THEN sig[t].action ELSE "HOLD"

\* a shift that is left out: the signal of the bar itself
SignalUnshifted(sig, t) == Signal(sig, t)

\* data["signal_shift"] = data["signal"].shift(1).fillna("HOLD")
SignalShift(sig, t) == IF t = 0 THEN "HOLD" ELSE Signal(sig, t - 1)

\* fee = open_px * (fee_bps + slippage_bps) / 10000.0
Fee(open_px, fee_bps, slippage_bps) ==
    RatMul(Rat(open_px), Norm(fee_bps + slippage_bps, BpsDenominator))

\* a BUY fill that records the price with the cost added to it
BuyFillCostInPrice(e, today, open_px) ==
    LET fee == Fee(open_px, e.fee_bps, e.slippage_bps)
        sh == RatDiv(e.cash, RatAdd(Rat(open_px), fee))
    IN [e EXCEPT !.shares = sh, !.cash = Zero, !.pos = 1,
                 !.trades = Append(@, [date |-> today, action |-> "BUY",
                                       price |-> open_px + e.fee_bps + e.slippage_bps,
                                       shares |-> sh])]

\* a BUY fill that forgets the cost
BuyFillNoFee(e, today, open_px) ==
    LET sh == RatDiv(e.cash, Rat(open_px))
    IN [e EXCEPT !.shares = sh, !.cash = Zero, !.pos = 1,
                 !.trades = Append(@, [date |-> today, action |-> "BUY",
                                       price |-> open_px, shares |-> sh])]

\* a BUY fill with the cost taken off the price instead of added
BuyFillRebate(e, today, open_px) ==
    LET fee == Fee(open_px, e.fee_bps, e.slippage_bps)
        sh == RatDiv(e.cash, RatSub(Rat(open_px), fee))
    IN [e EXCEPT !.shares = sh, !.cash = Zero, !.pos = 1,
                 !.trades = Append(@, [date |-> today, action |-> "BUY",
                                       price |-> open_px, shares |-> sh])]

\* the BUY branch of the loop body
BuyFill(e, today, open_px) ==
    LET fee == Fee(open_px, e.fee_bps, e.slippage_bps)
        sh == RatDiv(e.cash, RatAdd(Rat(open_px), fee))
    IN [e EXCEPT !.shares = sh, !.cash = Zero, !.pos = 1,
                 !.trades = Append(@, [date |-> today, action |-> "BUY",
                                       price |-> open_px, shares |-> sh])]

\* a SELL fill that forgets the cost
SellFillNoFee(e, today, open_px) ==
    [e EXCEPT !.cash = RatMul(e.shares, Rat(open_px)),
              !.trades = Append(@, [date |-> today, action |-> "SELL",
                                    price |-> open_px, shares |-> e.shares]),
              !.shares = Zero, !.pos = 0]

\* a SELL fill that leaves the shares in place
SellFillKeepsShares(e, today, open_px) ==
    LET fee == Fee(open_px, e.fee_bps, e.slippage_bps)
    IN [e EXCEPT !.cash = RatMul(e.shares, RatSub(Rat(open_px), fee)),
                 !.trades = Append(@, [date |-> today, action |-> "SELL",
                                       price |-> open_px, shares |-> e.shares]),
                 !.pos = 0]

\* the SELL branch of the loop body
SellFill(e, today, open_px) ==
    LET fee == Fee(open_px, e.fee_bps, e.slippage_bps)
    IN [e EXCEPT !.cash = RatMul(e.shares, RatSub(Rat(open_px), fee)),
                 !.trades = Append(@, [date |-> today, action |-> "SELL",
                                       price |-> open_px, shares |-> e.shares]),
                 !.shares = Zero, !.pos = 0]

\* a transition that fills a BUY whatever the position
TransitionIgnoresPos(e, d, i) ==
    LET action == SignalShift(e.signals, i)
    IN IF action = "BUY" THEN BuyFill(e, i, d[i].Open)
       ELSE IF action = "SELL" /\ e.pos = 1 THEN SellFill(e, i, d[i].Open)
       ELSE e

\* a transition that also closes the position when the open falls below
\* the stop of the previous bar's signal row
TransitionStopExit(e, d, i) ==
    LET action == SignalShift(e.signals, i)
        stopped == /\ e.pos = 1
                   /\ (i - 1) \in DOMAIN e.signals
                   /\ e.signals[i - 1].stop > d[i].Open
    IN IF action = "BUY" /\ e.pos = 0 THEN BuyFill(e, i, d[i].Open)
       ELSE IF (action = "SELL" \/ stopped) /\ e.pos = 1 THEN SellFill(e, i, d[i].Open)
       ELSE e

\* the transition of one bar
Transition(e, d, i) ==
    LET action == SignalShift(e.signals, i)
    IN IF action = "BUY" /\ e.pos = 0 THEN BuyFill(e, i, d[i].Open)
       ELSE IF action = "SELL" /\ e.pos = 1 THEN SellFill(e, i, d[i].Open)
       ELSE e

\* a valuation at the fill price instead of the close
MarkAtOpen(e, d, i) ==
    [e EXCEPT !.equity = Append(@, [date |-> i,
                 equity |-> RatAdd(e.cash, RatMul(e.shares, Rat(d[i].Open)))])]

\* the mark-to-market record closing the loop body
MarkToMarket(e, d, i) ==
    [e EXCEPT !.equity = Append(@, [date |-> i,
                 equity |-> RatAdd(e.cash, RatMul(e.shares, Rat(d[i].Close)))])]

LoopBody(e, d, i) == [MarkToMarket(Transition(e, d, i), d, i) EXCEPT !.i = i + 1]

\* an exception leaving the entry point: the caller sees it
Propagate(e, exc) == [e EXCEPT !.pc = "raised", !.exc = exc]

\* the result run_backtest returns when it has nothing to report
DefaultResult(e) ==
    [trades |-> <<>>, equity_curve |-> <<>>,
     final_capital |-> Rat(e.initial_capital),
     initial_capital |-> e.initial_capital]

\* run_backtest: except Exception as e: print(...); return {...}
ExceptHandler(e, exc) ==
    [e EXCEPT !.pc = "returned", !.exc = exc, !.ret = DefaultResult(e)]

\* an exception raised inside run: run_backtest calls run inside its try
Raise(e, exc) ==
    IF e.entry = "run_backtest" THEN ExceptHandler(e, exc) ELSE Propagate(e, exc)

\* run's return value, and what run_backtest makes of it:
\* to_dict('records') drops the date index of the equity frame
RunResult(e) == [trades |-> e.trades, equity |-> e.equity]

FormatResult(e) ==
    [trades |-> e.trades,
     equity_curve |-> [k \in 1..Len(e.equity) |-> [equity |-> e.equity[k].equity]],
     final_capital |-> e.equity[Len(e.equity)].equity,
     initial_capital |-> e.initial_capital]

Return(e) ==
    [e EXCEPT !.pc = "returned",
              !.ret = IF e.entry = "run_backtest" THEN FormatResult(e) ELSE RunResult(e)]

RunBacktestFeeBps == 10
RunBacktestSlippageBps == 5

\* signals_result[['action']], or an all-HOLD frame over data.index
SignalDf(out, d) ==
    IF out.has_action
    THEN [t \in DOMAIN out.rows |-> [action |-> out.rows[t].action]]
    ELSE [t \in DOMAIN d |-> [action |-> "HOLD"]]

\* run_backtest, up to its call of run
RunBacktest(r) ==
    /\ eng[r].pc = "run_backtest"
    /\ \A q \in runs : q < r => eng[q].pc \in {"returned", "raised"}
    /\ LET e == eng[r]
           st == e.strategy
       IN eng' = [eng EXCEPT ![r] =
            IF st.kind = "None" THEN Propagate(e, "ValueError")
            ELSE IF st.kind = "raises" THEN ExceptHandler(e, st.exc)
            ELSE IF st.kind = "returns_None" \/ Len0(st.out.rows) = 0
                 THEN [e EXCEPT !.pc = "returned", !.ret = DefaultResult(e)]
            ELSE [e EXCEPT !.pc = "run", !.signals = SignalDf(st.out, df),
                           !.fee_bps = RunBacktestFeeBps,
                           !.slippage_bps = RunBacktestSlippageBps]]
    /\ UNCHANGED <<df, runs, calls>>

\* run: the emptiness check and the set-up of the locals
RunStart(r) ==
    /\ eng[r].pc = "run"
    /\ \A q \in runs : q < r => eng[q].pc \in {"returned", "raised"}
    /\ eng' = [eng EXCEPT ![r] =
          IF Len0(df) = 0 \/ Len0(eng[r].signals) = 0
          THEN Raise(@, "ValueError")
          ELSE [@ EXCEPT !.pc = "loop", !.i = 1, !.pos = 0,
                         !.cash = Rat(eng[r].initial_capital), !.shares = Zero,
                         !.equity = <<>>, !.trades = <<>>]]
    /\ UNCHANGED <<df, runs, calls>>

\* run: one iteration of for i in range(1, len(data))
LoopStep(r) ==
    /\ eng[r].pc = "loop"
    /\ eng[r].i < Len0(df)
    /\ eng' = [eng EXCEPT ![r] = LoopBody(@, df, @.i)]
    /\ UNCHANGED <<df, runs, calls>>

\* run: the frames built after the loop; set_index("date") needs a row
RunEnd(r) ==
    /\ eng[r].pc = "loop"
    /\ eng[r].i >= Len0(df)
    /\ eng' = [eng EXCEPT ![r] =
          IF @.equity = <<>> THEN Raise(@, "KeyError") ELSE Return(@)]
    /\ UNCHANGED <<df, runs, calls>>

----------------------------------------------------------------------------
(* Specification *)

NoStrategy == [kind |-> "None"]
NoSignals == [t \in {} |-> [action |-> "HOLD"]]
NoResult == [trades |-> <<>>, equity |-> <<>>]

Locals(entry, st, sig, cap, cost) ==
    [entry |-> entry, pc |-> entry, strategy |-> st,
     signals |-> sig, initial_capital |-> cap,
     fee_bps |-> cost[1], slippage_bps |-> cost[2],
     i |-> 0, pos |-> 0, cash |-> Zero, shares |-> Zero,
     equity |-> <<>>, trades |-> <<>>, exc |-> "none", ret |-> NoResult]

\* a call engine.run(df, signals, initial_capital, fee_bps, slippage_bps)
CallRun(sig, cap, cost) == Locals("run", NoStrategy, sig, cap, cost)

\* what strategy.compute_signals(data) does on the bar series at hand
StrategyBehaviours(hi) ==
    {NoStrategy, [kind |-> "raises", exc |-> "ValueError"], [kind |-> "returns_None"]}
    \cup {[kind |-> "returns", out |-> [has_action |-> TRUE, rows |-> sig]] :
             sig \in SignalSeriesOver(SignalRows, hi)}
    \cup {[kind |-> "returns",
           out |-> [has_action |-> FALSE, rows |-> [t \in 0..(hi - 1) |-> [size |-> 1]]]]}

\* a call BacktestEngine(strategy).run_backtest(df, initial_capital)
CallRunBacktest(st, cap) == Locals("run_backtest", st, NoSignals, cap, <<0, 0>>)

SignalEnd(n) == IF n = 0 THEN 1 ELSE n

Init ==
    \E n \in 0..MaxBars :
        /\ df \in BarSeries(n)
        /\ runs = {1}
        /\ calls = <<>>
        /\ \E cap \in CapitalValues :
              \/ \E sig \in SignalSeriesOver(SignalRows, SignalEnd(n)), cost \in CostValues :
                    eng = [r \in {1} |-> CallRun(sig, cap, cost)]
              \/ \E st \in StrategyBehaviours(SignalEnd(n)) :
                    eng = [r \in {1} |-> CallRunBacktest(st, cap)]

Next ==
    \/ \E r \in runs : RunBacktest(r)
    \/ \E r \in runs : RunStart(r)
    \/ \E r \in runs : LoopStep(r)
    \/ \E r \in runs : RunEnd(r)

Spec == Init /\ [][Next]_vars

\* Two calls of run, one after the other, on the same bars
NextRun ==
    \/ \E r \in runs : RunStart(r)
    \/ \E r \in runs : LoopStep(r)
    \/ \E r \in runs : RunEnd(r)

CostGrid == {0, 10} \X {0, 10}

\* the same bars, signals and capital under two cost settings
InitCosts ==
    \E n \in 0..MaxBarsPair :
        /\ df \in BarSeries(n)
        /\ runs = {1, 2}
        /\ calls = <<>>
        /\ \E sig \in SignalSeriesOver(SignalRows, SignalEnd(n)), cap \in CapitalValues,
              c1 \in CostGrid, c2 \in CostGrid :
              eng = [r \in {1, 2} |-> CallRun(sig, cap, IF r = 1 THEN c1 ELSE c2)]

SpecCosts == InitCosts /\ [][NextRun]_vars

\* the rows of sig with the metadata columns replaced row by row
Redress(sig, meta) == [t \in DOMAIN sig |-> Row(sig[t].action, meta[t])]

\* the same bars, capital and costs under two signal frames with the same
\* action column
InitMeta ==
    \E n \in 0..MaxBarsPair :
        /\ df \in BarSeries(n)
        /\ runs = {1, 2}
        /\ calls = <<>>
        /\ \E sig \in SignalSeriesOver(SignalRows, SignalEnd(n)), cap \in CapitalValues,
              cost \in CostValues :
              \E meta \in [DOMAIN sig -> {PlainMeta, LevelMeta}] :
                 eng = [r \in {1, 2} |->
                          CallRun(IF r = 1 THEN sig ELSE Redress(sig, meta), cap, cost)]

SpecMeta == InitMeta /\ [][NextRun]_vars

\* The worked example: five bars opening at 100..104, closing a point above
\* or below the open, under the signals HOLD, BUY, HOLD, SELL, HOLD, with no
\* costs and a capital of 10000
ExampleOpens == <<100, 101, 102, 103, 104>>
ExampleActions == <<"HOLD", "BUY", "HOLD", "SELL", "HOLD">>

InitExample ==
    /\ \E closes \in [1..Len(ExampleOpens) -> {-1, 1}] :
          df = [t \in 0..(Len(ExampleOpens) - 1) |->
                  [Open |-> ExampleOpens[t + 1],
                   Close |-> ExampleOpens[t + 1] + closes[t + 1]]]
    /\ runs = {1}
    /\ calls = <<>>
    /\ eng = [r \in {1} |->
                CallRun([t \in 0..(Len(ExampleActions) - 1) |->
                            Row(ExampleActions[t + 1], PlainMeta)],
                        10000, <<0, 0>>)]

SpecExample == InitExample /\ [][NextRun]_vars

----------------------------------------------------------------------------
(* Properties of BacktestEngine.run *)

NBars == Len0(df)

\* run r has just been through an iteration of its loop
Stepped(r) == eng[r].pc = "loop" /\ eng'[r].i = eng[r].i + 1

\* run returned its frames (no exception on the way)
RunReturned(e) == e.pc = "returned" /\ e.exc = "none" /\ e.i >= 1

Alternates(trades) ==
    \A k \in 1..Len(trades) :
        trades[k].action = (IF k % 2 = 1 THEN "BUY" ELSE "SELL")

CostRate(e) == Norm(e.fee_bps + e.slippage_bps, BpsDenominator)
BuyPrice(e, open_px) == RatMul(Rat(open_px), RatAdd(Rat(1), CostRate(e)))
SellPrice(e, open_px) == RatMul(Rat(open_px), RatSub(Rat(1), CostRate(e)))

AppendsOne(e, f, action, t) ==
    /\ Len(f.trades) = Len(e.trades) + 1
    /\ SubSeq(f.trades, 1, Len(e.trades)) = e.trades
    /\ f.trades[Len(f.trades)].action = action
    /\ f.trades[Len(f.trades)].date = t

\* C2: when the signal of bar t-1 is BUY and the engine is FLAT as bar t is
\* processed, then after bar t shares = cash_before / (open[t] * (1 + cost)),
\* cash = 0, the engine is LONG and exactly one BUY trade dated t is appended.
C2_BuyFill ==
    [][\A r \in runs :
          LET e == eng[r]
              f == eng'[r]
              t == e.i
          IN (Stepped(r) /\ Signal(e.signals, t - 1) = "BUY" /\ e.pos = 0) =>
                /\ f.shares = RatDiv(e.cash, BuyPrice(e, df[t].Open))
                /\ f.cash = Zero
                /\ f.pos = 1
                /\ AppendsOne(e, f, "BUY", t)]_vars

C2_Witness ==
    \E r \in runs :
        /\ eng[r].fee_bps + eng[r].slippage_bps > 0
        /\ eng[r].pos = 1
        /\ Len(eng[r].trades) = 1
        /\ eng[r].trades[1].date = eng[r].i - 1
        /\ eng[r].trades[1].shares # RatDiv(Rat(eng[r].initial_capital),
                                            Rat(eng[r].trades[1].price))

\* C3: when the signal of bar t-1 is SELL and the engine is LONG as bar t is
\* processed, then after bar t cash = shares_before * open[t] * (1 - cost),
\* shares = 0, the engine is FLAT and exactly one SELL trade dated t is
\* appended.
C3_SellFill ==
    [][\A r \in runs :
          LET e == eng[r]
              f == eng'[r]
              t == e.i
          IN (Stepped(r) /\ Signal(e.signals, t - 1) = "SELL" /\ e.pos = 1) =>
                /\ f.cash = RatMul(e.shares, SellPrice(e, df[t].Open))
                /\ f.shares = Zero
                /\ f.pos = 0
                /\ AppendsOne(e, f, "SELL", t)]_vars

C3_Witness ==
    \E r \in runs :
        /\ eng[r].fee_bps + eng[r].slippage_bps > 0
        /\ eng[r].pos = 0
        /\ Len(eng[r].trades) = 2
        /\ eng[r].trades[2].date = eng[r].i - 1
        /\ eng[r].cash # RatMul(eng[r].trades[2].shares, Rat(eng[r].trades[2].price))

\* C4: BUY while LONG, SELL while FLAT and HOLD in either state leave cash,
\* shares and the FLAT/LONG state unchanged and append no trade for the bar.
C4_NoOp ==
    [][\A r \in runs :
          LET e == eng[r]
              f == eng'[r]
              a == Signal(e.signals, e.i - 1)
          IN (Stepped(r) /\ ~(a = "BUY" /\ e.pos = 0) /\ ~(a = "SELL" /\ e.pos = 1)) =>
                /\ f.cash = e.cash
                /\ f.shares = e.shares
                /\ f.pos = e.pos
                /\ f.trades = e.trades]_vars

\* a BUY signal met a LONG engine, and a SELL signal a FLAT one
C4_Witness ==
    \E r \in runs :
        LET e == eng[r]
        IN /\ e.pc = "returned"
           /\ e.i = 4
           /\ Signal(e.signals, 0) = "SELL"
           /\ Signal(e.signals, 1) = "BUY"
           /\ Signal(e.signals, 2) = "BUY"
           /\ Len(e.trades) = 1
           /\ e.trades[1].date = 2
           /\ Len(e.equity) = 3

\* C5: run records exactly one equity point for each bar 1..n-1, in time
\* order, fill or no fill, each equal to cash + shares * close[t] taken after
\* bar t's transition.
C5_EquityPoints ==
    /\ [](\A r \in runs :
            LET e == eng[r]
            IN /\ e.pc = "loop" => Len(e.equity) = e.i - 1
               /\ RunReturned(e) => Len(e.equity) = NBars - 1
               /\ \A k \in 1..Len(e.equity) : e.equity[k].date = k)
    /\ [][\A r \in runs :
            LET e == eng[r]
                f == eng'[r]
            IN Stepped(r) =>
                 f.equity = Append(e.equity,
                     [date |-> e.i,
                      equity |-> RatAdd(f.cash, RatMul(f.shares, Rat(df[e.i].Close)))])]_vars

\* a returned run holding a position over a bar whose close is not its open
C5_Witness ==
    \E r \in runs :
        LET e == eng[r]
        IN /\ RunReturned(e)
           /\ NBars = 4
           /\ Len(e.equity) = 3
           /\ Len(e.trades) = 1
           /\ e.trades[1].date = 2
           /\ df[2].Open # df[2].Close
           /\ e.equity[1].equity # e.equity[2].equity

\* C6: every trade is dated at the bar right after the bar whose signal
\* caused it, has that signal's action and the open of its own bar as price;
\* at most one trade per bar, none at bar 0, so the last bar's signal is
\* never filled.
C6_NextBarFill ==
    \A r \in runs :
        LET e == eng[r]
        IN \A k \in 1..Len(e.trades) :
              LET tr == e.trades[k]
              IN /\ tr.date \in 1..(NBars - 1)
                 /\ tr.action = Signal(e.signals, tr.date - 1)
                 /\ tr.price = df[tr.date].Open
                 /\ k > 1 => e.trades[k - 1].date < tr.date

\* a returned run with a fill whose own bar carries another signal, and a
\* last bar carrying a BUY the flat engine never fills
C6_Witness ==
    \E r \in runs :
        LET e == eng[r]
        IN /\ RunReturned(e)
           /\ Len(e.trades) = 2
           /\ Signal(e.signals, e.trades[1].date) # e.trades[1].action
           /\ Signal(e.signals, NBars - 1) = "BUY"
           /\ e.pos = 0

\* C7: run raises ValueError when the bar series or the signal series is
\* empty, and returns its (possibly empty) outputs without raising for every
\* non-empty bar series and signal series, a one-bar series included.
C7_RunErrorContract ==
    \A r \in runs :
        LET e == eng[r]
            empty == NBars = 0 \/ Len0(e.signals) = 0
        IN (e.entry = "run" /\ e.pc # "run") =>
              /\ empty => (e.pc = "raised" /\ e.exc = "ValueError")
              /\ ~empty => e.pc # "raised"

\* C10: an error raised by compute_signals or inside run propagates out of
\* run and run_backtest; no call that met an error returns a result.
C10_ErrorsPropagate ==
    \A r \in runs : eng[r].exc # "none" => eng[r].pc = "raised"

----------------------------------------------------------------------------
(* Properties relating two calls of run *)

FinalEquity(e) == e.equity[Len(e.equity)].equity

\* C8: for fixed bars, signals and capital, a larger fee_bps or a larger
\* slippage_bps never yields a larger final equity.
C8_CostMonotone ==
    (/\ RunReturned(eng[1]) /\ RunReturned(eng[2])
     /\ eng[1].signals = eng[2].signals
     /\ eng[1].initial_capital = eng[2].initial_capital
     /\ eng[1].fee_bps <= eng[2].fee_bps
     /\ eng[1].slippage_bps <= eng[2].slippage_bps)
    => RatLeq(FinalEquity(eng[2]), FinalEquity(eng[1]))

\* both calls filled a BUY, and the dearer one ends strictly lower
C8_Witness ==
    /\ RunReturned(eng[1]) /\ RunReturned(eng[2])
    /\ eng[1].fee_bps < eng[2].fee_bps
    /\ eng[1].slippage_bps = eng[2].slippage_bps
    /\ Len(eng[1].trades) >= 1
    /\ RatLess(FinalEquity(eng[2]), FinalEquity(eng[1]))

SameActions(s1, s2) ==
    /\ DOMAIN s1 = DOMAIN s2
    /\ \A t \in DOMAIN s1 : s1[t].action = s2[t].action

Finished(e) == e.pc \in {"returned", "raised"}

\* C9: two signal frames with the same action column and different stop,
\* target, size or confidence give the same trades and equity curve, and a
\* LONG position is closed only on a SELL signal.
C9_ActionOnly ==
    /\ []((Finished(eng[1]) /\ Finished(eng[2])
           /\ SameActions(eng[1].signals, eng[2].signals)
           /\ eng[1].initial_capital = eng[2].initial_capital
           /\ eng[1].fee_bps = eng[2].fee_bps
           /\ eng[1].slippage_bps = eng[2].slippage_bps)
          => /\ eng[1].pc = eng[2].pc
             /\ eng[1].exc = eng[2].exc
             /\ eng[1].ret = eng[2].ret
             /\ eng[1].trades = eng[2].trades
             /\ eng[1].equity = eng[2].equity)
    /\ [][\A r \in runs :
            (eng[r].pos = 1 /\ eng'[r].pos = 0) =>
               Signal(eng[r].signals, eng[r].i - 1) = "SELL"]_vars

\* the second frame carries a stop above the open of a bar the position is
\* held through, and both calls return the same non-empty trade log
C9_Witness ==
    /\ RunReturned(eng[1]) /\ RunReturned(eng[2])
    /\ eng[1].signals # eng[2].signals
    /\ Len(eng[2].trades) = 1
    /\ eng[2].pos = 1
    /\ \E t \in 2..(NBars - 1) :
          /\ eng[2].trades[1].date < t
          /\ (t - 1) \in DOMAIN eng[2].signals
          /\ eng[2].signals[t - 1].stop > df[t].Open

----------------------------------------------------------------------------
(* Floats with their special values.  A finite float is a normalised       *)
(* rational <<n, d>> with d > 0; a zero denominator marks nan and the two  *)
(* infinities, which numpy and pandas produce instead of raising.          *)

NaN == <<0, 0>>
Inf == <<1, 0>>
NegInf == <<-1, 0>>

IsNaN(x) == x = NaN
IsFinite(x) == x[2] # 0
Sign(x) == IF x[1] > 0 THEN 1 ELSE IF x[1] < 0 THEN -1 ELSE 0

FNeg(x) == <<-x[1], x[2]>>

FAdd(a, b) ==
    IF IsNaN(a) \/ IsNaN(b) THEN NaN
    ELSE IF ~IsFinite(a) THEN (IF ~IsFinite(b) /\ b # a THEN NaN ELSE a)
    ELSE IF ~IsFinite(b) THEN b
    ELSE RatAdd(a, b)

FSub(a, b) == FAdd(a, FNeg(b))

FMul(a, b) ==
    IF IsNaN(a) \/ IsNaN(b) THEN NaN
    ELSE IF ~IsFinite(a) \/ ~IsFinite(b)
         THEN (IF Sign(a) * Sign(b) = 0 THEN NaN
               ELSE IF Sign(a) * Sign(b) > 0 THEN Inf ELSE NegInf)
    ELSE RatMul(a, b)

\* float division: x / 0 is an infinity, 0 / 0 is nan
FDiv(a, b) ==
    IF IsNaN(a) \/ IsNaN(b) THEN NaN
    ELSE IF ~IsFinite(b) THEN (IF ~IsFinite(a) THEN NaN ELSE Zero)
    ELSE IF b[1] = 0
         THEN (IF Sign(a) = 0 THEN NaN ELSE IF Sign(a) > 0 THEN Inf ELSE NegInf)
    ELSE IF ~IsFinite(a) THEN (IF Sign(a) * Sign(b) > 0 THEN Inf ELSE NegInf)
    ELSE RatMul(a, IF b[1] > 0 THEN <<b[2], b[1]>> ELSE <<-b[2], -b[1]>>)

\* comparisons with nan are False
FLt(a, b) ==
    IF IsNaN(a) \/ IsNaN(b) \/ a = b THEN FALSE
    ELSE IF a = NegInf \/ b = Inf THEN TRUE
    ELSE IF a = Inf \/ b = NegInf THEN FALSE
    ELSE a[1] * b[2] < b[1] * a[2]

FLe(a, b) == ~IsNaN(a) /\ ~IsNaN(b) /\ (a = b \/ FLt(a, b))
FGt(a, b) == FLt(b, a)
FGe(a, b) == FLe(b, a)

\* Series.min() / Series.max(): nan entries are skipped, nan when none is left
SeriesMin(S) ==
    LET V == S \ {NaN}
    IN IF V = {} THEN NaN ELSE CHOOSE m \in V : \A v \in V : FLe(m, v)

SeriesMax(S) ==
    LET V == S \ {NaN}
    IN IF V = {} THEN NaN ELSE CHOOSE m \in V : \A v \in V : FLe(v, m)

\* Series.mean(): nan entries are skipped
RECURSIVE FSum(_)
FSum(S) == IF S = <<>> THEN Zero ELSE FAdd(Head(S), FSum(Tail(S)))

SeriesMean(S) ==
    LET V == SelectSeq(S, LAMBDA v : ~IsNaN(v))
    IN IF V = <<>> THEN NaN ELSE FDiv(FSum(V), Rat(Len(V)))

----------------------------------------------------------------------------
(* compute_metrics and compute_metrics_legacy                               *)
(* (src/src/core/backtest/metrics.py).  The equity curve is a sequence of  *)
(* equity values; volatility, the Sharpe ratio and the win rate are not    *)
(* carried.                                                                *)

\* length of the longest equity curve
MaxCurve == 3

\* equity values a curve is drawn from
EquityValues == {0, 50, 75, 100}

Freq == 252
Percent == 100

\* eq.cummax() at position i
CumMaxLast(eq, i) == eq[i]
CumMax(eq, i) == CHOOSE m \in {eq[k] : k \in 1..i} : \A k \in 1..i : eq[k] <= m

\* (eq / cummax - 1) at position i
Drawdown(eq, i) == FSub(FDiv(Rat(eq[i]), Rat(CumMax(eq, i))), Rat(1))

\* dd.min()
MinDrawdown(eq) == SeriesMin({Drawdown(eq, i) : i \in 1..Len(eq)})

\* the float 0.0 and the power (last / first) ** (freq / periods) - 1, times
\* a scale; the power is kept by its base and exponent
LiteralZero == [kind |-> "literal", value |-> Zero]
Growth(eq, freq, scale) ==
    [kind |-> "power", base |-> FDiv(Rat(eq[Len(eq)]), Rat(eq[1])),
     exp |-> <<freq, Len(eq)>>, scale |-> scale]

\* where base ** (p / q) - 1 lies, for p, q > 0: a negative base has a real
\* power only for a whole exponent
PowerClass(base, p, q) ==
    LET mag == IF Sign(base) < 0 THEN FNeg(base) ELSE base
        above == IF mag = Rat(1) THEN "zero"
                 ELSE IF mag = Inf THEN "inf"
                 ELSE IF FLt(mag, Rat(1)) THEN "negative" ELSE "positive"
    IN IF IsNaN(base) THEN "nan"
       ELSE IF Sign(base) >= 0 THEN above
       ELSE IF p % q # 0 THEN "nan"
       ELSE IF (p \div q) % 2 = 0 THEN above
       ELSE "negative"

\* zero, positive, negative, inf or nan: the class of a CAGR value
FloatClass(v) ==
    IF v.kind = "literal" THEN "zero" ELSE PowerClass(v.base, v.exp[1], v.exp[2])

\* compute_metrics_legacy(equity, freq)
LegacyMetrics(eq, freq) ==
    [CAGR |-> IF Len(eq) > 1 THEN Growth(eq, freq, 1) ELSE LiteralZero,
     MaxDrawdown |-> MinDrawdown(eq)]

ZeroMetrics == [cagr |-> LiteralZero, max_drawdown |-> Zero]

\* compute_metrics on a results dictionary
ExtendedMetrics(eq, freq) ==
    IF Len(eq) = 0 THEN ZeroMetrics
    ELSE [cagr |-> IF Len(eq) > 1 /\ eq[1] > 0
                   THEN Growth(eq, freq, Percent) ELSE LiteralZero,
          max_drawdown |-> IF Len(eq) > 1
                           THEN FMul(MinDrawdown(eq), Rat(Percent)) ELSE Zero]

\* eq.pct_change().fillna(0)
Returns(eq) ==
    [i \in 1..Len(eq) |->
        IF i = 1 THEN Zero
        ELSE LET change == FSub(FDiv(Rat(eq[i]), Rat(eq[i - 1])), Rat(1))
             IN IF IsNaN(change) THEN Zero ELSE change]

\* the square of Series.std(): nan for fewer than two values or when a value
\* is not finite
SampleVar(r) ==
    IF Len(r) < 2 \/ \E i \in 1..Len(r) : ~IsFinite(r[i]) THEN NaN
    ELSE LET m == SeriesMean(r)
         IN FDiv(FSum([i \in 1..Len(r) |-> FMul(FSub(r[i], m), FSub(r[i], m))]),
                 Rat(Len(r) - 1))

\* rets.std() * np.sqrt(freq) * scale, kept by the variance under the root
Root(var, freq, scale) == [kind |-> "root", var |-> var, freq |-> freq, scale |-> scale]

\* rets.mean() / (rets.std() + 1e-9) * np.sqrt(freq), kept by its operands
Ratio(mean, var, freq) == [kind |-> "ratio", mean |-> mean, var |-> var, freq |-> freq]

\* compute_metrics_legacy: vol and sharpe
LegacyVolatility(eq, freq) == Root(SampleVar(Returns(eq)), freq, 1)
LegacySharpe(eq, freq) ==
    Ratio(SeriesMean(Returns(eq)), SampleVar(Returns(eq)), freq)

\* an extended volatility left as a fraction
ExtendedVolatilityFraction(eq, freq) ==
    IF Len(eq) > 1 THEN Root(SampleVar(Returns(eq)), freq, 1) ELSE LiteralZero
\* compute_metrics: volatility and sharpe_ratio
ExtendedVolatility(eq, freq) ==
    IF Len(eq) > 1 THEN Root(SampleVar(Returns(eq)), freq, Percent) ELSE LiteralZero
ExtendedSharpe(eq, freq) ==
    IF Len(eq) > 1 /\ FGt(SampleVar(Returns(eq)), Zero)
    THEN Ratio(SeriesMean(Returns(eq)), SampleVar(Returns(eq)), freq)
    ELSE LiteralZero

\* the four values compute_metrics_legacy returns
LegacyResult(eq, freq) ==
    LegacyMetrics(eq, freq)
    @@ [Volatility |-> LegacyVolatility(eq, freq), Sharpe |-> LegacySharpe(eq, freq)]

NoMetrics == [none |-> TRUE]

\* the result of the extended path: all zeros when there is no equity curve
ExtendedResult(eq, freq, win_rate, total_trades) ==
    IF Len(eq) = 0
    THEN ZeroMetrics @@ [volatility |-> LiteralZero, sharpe_ratio |-> LiteralZero,
                         win_rate |-> Zero, total_trades |-> 0]
    ELSE ExtendedMetrics(eq, freq)
         @@ [volatility |-> ExtendedVolatility(eq, freq),
             sharpe_ratio |-> ExtendedSharpe(eq, freq),
             win_rate |-> win_rate, total_trades |-> total_trades]

\* trade.get('action', '').upper()
Upper(action) ==
    IF action = "buy" THEN "BUY" ELSE IF action = "sell" THEN "SELL" ELSE action

BuyActions == {"BUY", "LONG", "ENTER", "1"}
SellActions == {"SELL", "SHORT", "EXIT", "-1", "0"}

\* sorted(trades, key=lambda x: x.get('date', '')): a stable sort
RECURSIVE SortByDate(_)
SortByDate(trades) ==
    IF trades = <<>> THEN <<>>
    ELSE LET first == CHOOSE i \in 1..Len(trades) :
                         \A j \in 1..Len(trades) :
                            \/ trades[i].date < trades[j].date
                            \/ (trades[i].date = trades[j].date /\ i <= j)
             rest == [j \in 1..(Len(trades) - 1) |->
                         IF j < first THEN trades[j] ELSE trades[j + 1]]
         IN <<trades[first]>> \o SortByDate(rest)

\* a round trip that comes out even counted as a win
IsWinOrEven(price, buy_price) == price >= buy_price
\* if price > buy_price: winning_trades += 1
IsWin(price, buy_price) == price > buy_price

\* the body of for trade in all_trades
PairTrade(e, trade) ==
    LET action == Upper(trade.action)
        price == trade.price
    IN IF action \in BuyActions /\ e.position = 0
       THEN [e EXCEPT !.buy_price = price, !.position = 1]
       ELSE IF action \in SellActions /\ e.position = 1
       THEN [e EXCEPT !.winning_trades = IF IsWin(price, e.buy_price) THEN @ + 1 ELSE @,
                      !.total_trade_pairs = @ + 1,
                      !.position = 0]
       ELSE e

\* win_rate = (winning_trades / total_trade_pairs * 100) if total_trade_pairs > 0 else 0
WinRate(winning_trades, total_trade_pairs) ==
    IF total_trade_pairs > 0
    THEN FMul(FDiv(Rat(winning_trades), Rat(total_trade_pairs)), Rat(Percent))
    ELSE Zero

\* a call compute_metrics(x) or compute_metrics_legacy(x); shape tells whether
\* x is an equity DataFrame or a results dictionary
CallMetrics(entry, shape, eq) ==
    [fn |-> entry, pc |-> entry, shape |-> shape, equity |-> eq, freq |-> Freq,
     trades |-> <<>>, all_trades |-> <<>>, k |-> 0,
     position |-> 0, buy_price |-> 0, winning_trades |-> 0, total_trade_pairs |-> 0,
     exc |-> "none", ret |-> NoMetrics]

\* compute_metrics({'equity_curve': eq, 'trades': trades})
CallMetricsTrades(eq, trades) ==
    [CallMetrics("compute_metrics", "dict", eq) EXCEPT !.trades = trades]

\* the calls before c have come back
Turn(c) == \A q \in DOMAIN calls : q < c => calls[q].pc \in {"returned", "raised"}

\* compute_metrics: a DataFrame goes to the legacy function; a dictionary
\* without equity curve or without trades is answered at once, otherwise the
\* trades are sorted for the walk
ComputeMetrics(c) ==
    /\ calls[c].pc = "compute_metrics"
    /\ Turn(c)
    /\ calls' = [calls EXCEPT ![c] =
          IF @.shape = "DataFrame" THEN [@ EXCEPT !.pc = "compute_metrics_legacy"]
          ELSE IF Len(calls[c].equity) = 0 \/ Len(calls[c].trades) = 0
          THEN [@ EXCEPT !.pc = "returned",
                         !.ret = ExtendedResult(calls[c].equity, calls[c].freq, Zero,
                                                Len(calls[c].trades))]
          ELSE [@ EXCEPT !.pc = "pairs", !.k = 1,
                         !.all_trades = SortByDate(calls[c].trades)]]
    /\ UNCHANGED <<df, runs, eng>>

\* compute_metrics: one iteration of for trade in all_trades
PairStep(c) ==
    /\ calls[c].pc = "pairs"
    /\ calls[c].k <= Len(calls[c].all_trades)
    /\ calls' = [calls EXCEPT ![c] =
          [PairTrade(@, calls[c].all_trades[calls[c].k]) EXCEPT !.k = calls[c].k + 1]]
    /\ UNCHANGED <<df, runs, eng>>

\* compute_metrics: the win rate and the return
ReturnMetrics(c) ==
    /\ calls[c].pc = "pairs"
    /\ calls[c].k > Len(calls[c].all_trades)
    /\ calls' = [calls EXCEPT ![c] =
          [@ EXCEPT !.pc = "returned",
                    !.ret = ExtendedResult(calls[c].equity, calls[c].freq,
                               WinRate(calls[c].winning_trades, calls[c].total_trade_pairs),
                               Len(calls[c].trades))]]
    /\ UNCHANGED <<df, runs, eng>>

ComputeMetricsLegacy(c) ==
    /\ calls[c].pc = "compute_metrics_legacy"
    /\ Turn(c)
    /\ calls' = [calls EXCEPT ![c] =
          [@ EXCEPT !.pc = "returned",
                    !.ret = LegacyResult(calls[c].equity, calls[c].freq)]]
    /\ UNCHANGED <<df, runs, eng>>

Curves == UNION {[1..n -> EquityValues] : n \in 0..MaxCurve}

MetricsCalls ==
    {CallMetrics("compute_metrics", sh, eq) : sh \in {"DataFrame", "dict"}, eq \in Curves}
    \cup {CallMetrics("compute_metrics_legacy", "DataFrame", eq) : eq \in Curves}

InitMetrics ==
    /\ df = <<>>
    /\ runs = {}
    /\ eng = <<>>
    /\ \E m \in MetricsCalls : calls = [c \in {1} |-> m]

NextMetrics ==
    \/ \E c \in DOMAIN calls : ComputeMetrics(c)
    \/ \E c \in DOMAIN calls : ComputeMetricsLegacy(c)

SpecMetrics == InitMetrics /\ [][NextMetrics]_vars

\* The same curve handed over as an equity DataFrame and in a results
\* dictionary
InitShapes ==
    /\ df = <<>>
    /\ runs = {}
    /\ eng = <<>>
    /\ \E eq \in Curves :
          calls = [c \in {1, 2} |->
                     CallMetrics("compute_metrics", IF c = 1 THEN "DataFrame" ELSE "dict", eq)]

SpecShapes == InitShapes /\ [][NextMetrics]_vars

\* The trade-aware path: a results dictionary with a trade list
MaxTrades == 3

TradeValues ==
    [date : {1, 2}, action : {"BUY", "SELL", "sell", "HOLD"}, price : {1, 2}]
TradeLists == UNION {[1..n -> TradeValues] : n \in 0..MaxTrades}

InitTrades ==
    /\ df = <<>>
    /\ runs = {}
    /\ eng = <<>>
    /\ \E eq \in {<<>>, <<100, 100>>}, trades \in TradeLists :
          calls = [c \in {1} |-> CallMetricsTrades(eq, trades)]

NextTrades ==
    \/ \E c \in DOMAIN calls : ComputeMetrics(c)
    \/ \E c \in DOMAIN calls : PairStep(c)
    \/ \E c \in DOMAIN calls : ReturnMetrics(c)

SpecTrades == InitTrades /\ [][NextTrades]_vars

----------------------------------------------------------------------------
(* Properties of the metrics *)

Returned(c) == calls[c].pc = "returned"
Legacy(c) == calls[c].shape = "DataFrame"

\* the drawdown and the CAGR a call came back with
DrawdownOf(c) == IF Legacy(c) THEN calls[c].ret.MaxDrawdown ELSE calls[c].ret.max_drawdown
CagrOf(c) == IF Legacy(c) THEN calls[c].ret.CAGR ELSE calls[c].ret.cagr

NonDecreasing(eq) == \A i \in 1..(Len(eq) - 1) : eq[i] <= eq[i + 1]
NonIncreasing(eq) == \A i \in 1..(Len(eq) - 1) : eq[i] >= eq[i + 1]
Falls100To50(eq) ==
    Len(eq) >= 2 /\ eq[1] = 100 /\ eq[Len(eq)] = 50 /\ NonIncreasing(eq)
PositiveCurve(eq) == Len(eq) >= 1 /\ \A i \in 1..Len(eq) : eq[i] > 0

C20_CagrGuard ==
    \A c \in DOMAIN calls :
        (Returned(c) /\ (Len(calls[c].equity) < 2 \/ calls[c].equity[1] <= 0)) =>
            FloatClass(CagrOf(c)) = "zero"

----------------------------------------------------------------------------
(* Strategy.compute_signals (src/src/core/strategy/*.py): the column check, *)
(* the indicator frame, and the warmup trim.  A bar series is a function    *)
(* 0..n-1 -> bar, a column is a function 0..n-1 -> float, and a frame is a  *)
(* function from dates (bar numbers) to rows.                               *)

\* bars of the longest series momentum is computed on
MaxSignalBars == 3
\* bars of the longest series of the other strategies
MaxFrameBars == 2
\* the largest warmup parameter
MaxWarmup == 3

ProviderColumns == {"Open", "High", "Low", "Close", "Volume", "Daily_Return", "Volatility"}
Ohlcv == {"Close", "Open", "High", "Low", "Volume"}

Strategies ==
    {"baseline", "momentum", "mean_reversion", "pattern", "multi_timeframe",
     "machine_learning", "market_regime", "quantitative_factor",
     "sentiment_analysis", "statistical_arbitrage", "volume_profile"}

\* req_cols of each strategy
ReqColsOhlcv(strategy) == Ohlcv
ReqCols(strategy) ==
    IF strategy \in {"momentum", "pattern"} THEN ProviderColumns
    ELSE IF strategy \in {"baseline", "mean_reversion"}
         THEN {"Close", "Open", "Daily_Return", "Volatility"}
    ELSE Ohlcv

\* the default of the warmup parameter
DefaultWarmup(strategy) ==
    CASE strategy = "baseline" -> 200
      [] strategy = "machine_learning" -> 120
      [] strategy = "quantitative_factor" -> 100
      [] strategy = "statistical_arbitrage" -> 80
      [] strategy = "multi_timeframe" -> 70
      [] strategy = "volume_profile" -> 60
      [] OTHER -> 50

\* a quiet session, a session on doubled volume, a close above the range and a
\* close below it
QuietBar == [Open |-> 2, High |-> 2, Low |-> 2, Close |-> 2, Volume |-> 1]
SignalBarValues ==
    {QuietBar,
     [Open |-> 2, High |-> 2, Low |-> 2, Close |-> 2, Volume |-> 2],
     [Open |-> 2, High |-> 3, Low |-> 2, Close |-> 3, Volume |-> 1],
     [Open |-> 2, High |-> 2, Low |-> 1, Close |-> 1, Volume |-> 1]}

SignalSeries(n) == [0..(n - 1) -> SignalBarValues]
\* the series whose bars are all the same
ConstantSeries(n) == [t \in 0..(n - 1) |-> QuietBar]

One == Rat(1)
Half == <<1, 2>>
FAbs(x) == IF x[1] < 0 THEN FNeg(x) ELSE x
FillNa(x, v) == IF IsNaN(x) THEN v ELSE x

\* np.clip(x, lo, hi)
NpClipBelow(x, lo, hi) == IF FLt(x, lo) THEN lo ELSE x
NpClip(x, lo, hi) == IF FLt(x, lo) THEN lo ELSE IF FGt(x, hi) THEN hi ELSE x

\* df[name] as floats
Column(b, name) == [t \in DOMAIN b |-> Rat(b[t][name])]

\* v.shift(1)
Shift(v) == [t \in DOMAIN v |-> IF t = 0 THEN NaN ELSE v[t - 1]]

\* the rows of rolling(w, min_periods=1) at row t, as a sequence of values
Window(v, t, w) ==
    LET lo == IF t - w + 1 > 0 THEN t - w + 1 ELSE 0
    IN [k \in 1..(t - lo + 1) |-> v[lo + k - 1]]

Values(sq) == {sq[k] : k \in DOMAIN sq}

RollingMean(v, w) == [t \in DOMAIN v |-> SeriesMean(Window(v, t, w))]
RollingMax(v, w) == [t \in DOMAIN v |-> SeriesMax(Values(Window(v, t, w)))]
RollingMin(v, w) == [t \in DOMAIN v |-> SeriesMin(Values(Window(v, t, w)))]

\* v.pct_change(k)
PctChange(v, k) ==
    [t \in DOMAIN v |-> IF t - k >= 0 THEN FSub(FDiv(v[t], v[t - k]), One) ELSE NaN]

\* np.where(buy_rule, "BUY", np.where(sell_rule, "SELL", "HOLD"))
ActionOf(buy_rule, sell_rule) ==
    IF buy_rule THEN "BUY" ELSE IF sell_rule THEN "SELL" ELSE "HOLD"

\* np.where(action == "BUY", close - k * band,
\*          np.where(action == "SELL", close + k * band, np.nan))
Level(action, close, k, band) ==
    IF action = "BUY" THEN FSub(close, FMul(k, band))
    ELSE IF action = "SELL" THEN FAdd(close, FMul(k, band))
    ELSE NaN

\* the rows that are returned: nothing of an empty frame, the last row of a
\* frame no longer than warmup, the rows from warmup on otherwise
TrimNoTail(out, warmup) ==
    [t \in {d \in DOMAIN out : d >= warmup} |-> out[t]]
Trim(out, warmup) ==
    LET n == Len0(out)
    IN IF n = 0 THEN out
       ELSE IF n <= warmup THEN [t \in {n - 1} |-> out[t]]
       ELSE [t \in warmup..(n - 1) |-> out[t]]

(* MomentumStrategy (momentum.py) *)

MomentumDefaults ==
    [momentum_period |-> 20, volume_sma |-> 10, breakout_threshold |-> <<1, 50>>]

\* s["tr"]: the largest of the three ranges, nan entries skipped
TrueRange(b) ==
    LET prev == Shift(Column(b, "Close"))
    IN [t \in DOMAIN b |->
          SeriesMax({FSub(Rat(b[t].High), Rat(b[t].Low)),
                     FAbs(FSub(Rat(b[t].High), prev[t])),
                     FAbs(FSub(Rat(b[t].Low), prev[t]))})]

\* the frame before the trim
MomentumFrame(b, p) ==
    LET close == Column(b, "Close")
        volume == Column(b, "Volume")
        momentum == Shift(PctChange(close, p.momentum_period))
        volume_sma == Shift(RollingMean(volume, p.volume_sma))
        volume_ratio == Shift([t \in DOMAIN b |-> FDiv(volume[t], volume_sma[t])])
        atr == Shift(RollingMean(TrueRange(b), 14))
        high_20 == Shift(RollingMax(Column(b, "High"), 20))
        low_20 == Shift(RollingMin(Column(b, "Low"), 20))
    IN [t \in DOMAIN b |->
          LET strong_momentum == FGt(momentum[t], p.breakout_threshold)
              weak_momentum == FLt(momentum[t], FNeg(p.breakout_threshold))
              high_volume == FGt(volume_ratio[t], <<3, 2>>)
              breakout_up == FGt(close[t], high_20[t])
              breakdown == FLt(close[t], low_20[t])
              buy_rule == (strong_momentum /\ high_volume) \/ (breakout_up /\ high_volume)
              sell_rule == (weak_momentum /\ high_volume) \/ (breakdown /\ high_volume)
              action == ActionOf(buy_rule, sell_rule)
              momentum_strength ==
                  NpClip(FDiv(FAbs(FillNa(momentum[t], Zero)), <<1, 20>>), Zero, One)
              volume_strength ==
                  NpClip(FDiv(FSub(FillNa(volume_ratio[t], One), One), Rat(2)), Zero, One)
              confidence ==
                  FillNa(FAdd(FAdd(FMul(Half, momentum_strength),
                                   FMul(<<3, 10>>, volume_strength)), <<1, 5>>), Half)
          IN [Close |-> close[t], action |-> action,
              raw |-> confidence,
              confidence |-> NpClip(confidence, Zero, One),
              stop |-> Level(action, close[t], Rat(2), atr[t]),
              target |-> Level(action, close[t], Rat(-6), atr[t]),
              size |-> One]]

(* MachineLearningStrategy (machine_learning.py) on a constant series: every *)
(* feature is constant, its z-score is 0/0 and filled with 0, and the        *)
(* target Close.shift(-h) / Close - 1 is 0 wherever it is defined, so each   *)
(* ridge fit has weights 0 whatever rows the bootstrap draws.                *)

MlDefaults ==
    [prediction_horizon |-> 5, confidence_threshold |-> <<3, 5>>,
     ensemble_models |-> 3, lookback_window |-> 100]

\* the least number of training rows, the bootstrap size, the feature count
MlLimits == [min_train |-> 20, max_sample |-> 80, features |-> 15]

Min(a, b) == IF a <= b THEN a ELSE b
Max(a, b) == IF a >= b THEN a ELSE b

\* row i is given a prediction: i runs over range(lookback_window, n - h), the
\* lookback_window rows before i all have a target, and a fit needs more
\* sampled rows than features
HasPrediction(n, p, i) ==
    /\ p.lookback_window <= i
    /\ i < n - p.prediction_horizon
    /\ p.lookback_window >= MlLimits.min_train
    /\ p.ensemble_models >= 1
    /\ Min(p.lookback_window, MlLimits.max_sample) > MlLimits.features

MlFrame(b, p) ==
    LET n == Len0(b)
        close == Column(b, "Close")
    IN [t \in DOMAIN b |->
          LET ml_prediction == IF HasPrediction(n, p, t) THEN Zero ELSE NaN
              \* max(0, 1 - prediction_std / (abs(ensemble_pred) + 0.01))
              ml_confidence == IF HasPrediction(n, p, t) THEN One ELSE NaN
              \* volume_ratio is 1 (nan on the first rows): no confirmation
              technical_confirm == FALSE
              buy_rule == /\ FGt(ml_prediction, <<1, 50>>)
                          /\ FGt(ml_confidence, p.confidence_threshold)
                          /\ technical_confirm
              sell_rule == /\ FLt(ml_prediction, <<-1, 50>>)
                           /\ FGt(ml_confidence, p.confidence_threshold)
                           /\ technical_confirm
              action == ActionOf(buy_rule, sell_rule)
              technical_score == IF action = "HOLD" THEN Half
                                 ELSE IF technical_confirm THEN One ELSE Zero
              confidence ==
                  FillNa(FAdd(FMul(<<7, 10>>, FillNa(ml_confidence, Zero)),
                              FMul(<<3, 10>>, technical_score)), Half)
          IN [Close |-> close[t], action |-> action,
              raw |-> confidence,
              confidence |-> NpClip(confidence, Zero, One),
              \* the true range of a constant series is 0
              stop |-> Level(action, close[t], One, Zero),
              target |-> IF action = "BUY"
                         THEN FMul(close[t], FAdd(One, FAbs(ml_prediction)))
                         ELSE IF action = "SELL"
                         THEN FMul(close[t], FSub(One, FAbs(ml_prediction)))
                         ELSE NaN,
              size |-> One]]

(* SentimentAnalysisStrategy (sentiment_analysis.py) on a constant series:  *)
(* returns are 0, the volume ratio is 1, rsi and bb_position are nan, so    *)
(* no rule fires; combined_sentiment is a weighted mean of the              *)
(* np.random.normal draws from the fifth row on (min_periods=5) and nan     *)
(* before.                                                                  *)

\* values the noise takes
SentimentDraws == {<<-1, 2>>, Zero, Half}

\* min_periods of the rolling windows: the first row with that many
\* observations is row SentimentMinPeriods - 1
SentimentMinPeriods == 5
FirstSentimentRow == SentimentMinPeriods - 1

NoisyRows(b) == {t \in DOMAIN b : t >= FirstSentimentRow}
SentimentNoise(b) == [NoisyRows(b) -> SentimentDraws]

SentimentFrame(b, p, noise) ==
    LET close == Column(b, "Close")
        combined_sentiment == [t \in DOMAIN b |-> IF t \in DOMAIN noise THEN noise[t] ELSE NaN]
    IN [t \in DOMAIN b |->
          LET sentiment_strength == FillNa(FAbs(combined_sentiment[t]), Zero)
              recent == Values(Window(combined_sentiment, t, 3))
              \* rolling(3, min_periods=1).apply(...).fillna(0.5)
              sentiment_consistency ==
                  IF recent = {NaN} THEN Half
                  ELSE IF \/ \A x \in recent : FGt(x, Zero)
                          \/ \A x \in recent : FLt(x, Zero)
                       THEN One ELSE Half
              action == ActionOf(FALSE, FALSE)
              technical_score == Half
              volume_confirmation == FDiv(NpClip(One, Half, Rat(2)), Rat(2))
              base_confidence ==
                  FAdd(FAdd(FMul(<<2, 5>>, sentiment_strength),
                            FMul(<<3, 10>>, sentiment_consistency)),
                       FAdd(FMul(<<1, 5>>, technical_score),
                            FMul(<<1, 10>>, volume_confirmation)))
              \* returns.rolling(20, min_periods=5).std().fillna(0.02)
              volatility == IF t >= FirstSentimentRow + 1 THEN Zero ELSE <<1, 50>>
              volatility_factor ==
                  NpClip(FDiv(One, FAdd(One, FMul(volatility, Rat(50)))), Half, <<3, 2>>)
              confidence ==
                  FillNa(IF p.volatility_adjustment
                         THEN FMul(base_confidence, volatility_factor)
                         ELSE base_confidence, Half)
          IN [Close |-> close[t], action |-> action,
              raw |-> confidence,
              confidence |-> NpClip(confidence, Zero, One),
              stop |-> NaN, target |-> NaN, size |-> One]]

SentimentDefaults == [volatility_adjustment |-> TRUE]

(* The other strategies: their indicators are not computed.  A row is what  *)
(* the last steps make of any values of the rules and of the blended        *)
(* confidence: the np.where over the two rules, the fillna(0.5) and the     *)
(* np.clip(confidence, 0, 1); stop and target are not carried.              *)

\* values of a blended confidence before fillna and clip
RawConfidences == {NaN, <<-1, 2>>, Half, <<3, 2>>}

\* RuleBasedStrategy blends three booleans and has no fillna
BaselineConfidences ==
    {FAdd(FAdd(FMul(<<2, 5>>, Rat(a)), FMul(<<3, 10>>, Rat(b))), FMul(<<3, 10>>, Rat(c))) :
        a \in {0, 1}, b \in {0, 1}, c \in {0, 1}}

LastSteps(strategy, close, buy_rule, sell_rule, blend) ==
    LET action == ActionOf(buy_rule, sell_rule)
        confidence ==
            IF strategy = "baseline"
            THEN (IF action = "SELL" THEN FSub(One, blend) ELSE blend)
            ELSE FillNa(blend, Half)
    IN [Close |-> close, action |-> action, raw |-> confidence,
        confidence |-> NpClip(confidence, Zero, One), size |-> One]

RowsOf(strategy, close) ==
    {LastSteps(strategy, close, buy_rule, sell_rule, blend) :
        buy_rule \in BOOLEAN, sell_rule \in BOOLEAN,
        blend \in (IF strategy = "baseline" THEN BaselineConfidences ELSE RawConfidences)}

(* RuleBasedStrategy (rule_based.py) and MeanReversionStrategy              *)
(* (mean_reversion.py): the rules are computed from the Close column.  The   *)
(* standard deviations under the bands are kept by their variance, and what  *)
(* depends on them or on the Daily_Return column (the confidence blend of    *)
(* mean reversion, its low_volatility flag) takes any value.                 *)

\* a > b and a <= b by the sign of the difference (no large products)
Above(a, b) == ~IsNaN(a) /\ ~IsNaN(b) /\ Sign(FSub(a, b)) > 0
Below(a, b) == Above(b, a)
NotAbove(a, b) == ~IsNaN(a) /\ ~IsNaN(b) /\ Sign(FSub(a, b)) <= 0
NotBelow(a, b) == NotAbove(b, a)

\* v.diff()
Diff(v) == [t \in DOMAIN v |-> IF t = 0 THEN NaN ELSE FSub(v[t], v[t - 1])]

\* x.clip(lower=0) and -x.clip(upper=0)
ClipLower(x) == IF IsNaN(x) THEN NaN ELSE IF FLt(x, Zero) THEN Zero ELSE x
NegClipUpper(x) == IF IsNaN(x) THEN NaN ELSE IF FGt(x, Zero) THEN Zero ELSE FNeg(x)

\* rolling(w, min_periods=1).mean() of a column with nan entries: the mean of
\* the observations of the window, nan if it has none
RollingMeanObs(v, w) ==
    [t \in DOMAIN v |->
        LET obs == SelectSeq(Window(v, t, w), LAMBDA x : ~IsNaN(x))
        IN IF obs = <<>> THEN NaN ELSE SeriesMean(obs)]

\* rolling(w, min_periods=1).std(), squared
RollingVar(v, w) == [t \in DOMAIN v |-> SampleVar(Window(v, t, w))]

\* a zero average loss that is left in place
KeepZero(x) == x
\* loss.replace(0, np.nan)
ReplaceZero(x) == IF x = Zero THEN NaN ELSE x

\* the average loss of the window ending at each row
AvgLoss(close, period) ==
    RollingMeanObs([t \in DOMAIN close |-> NegClipUpper(Diff(close)[t])], period)
AvgGain(close, period) ==
    RollingMeanObs([t \in DOMAIN close |-> ClipLower(Diff(close)[t])], period)

\* s["rsi"] = (100 - (100 / (1 + rs))).shift(1)
Rsi(close, period) ==
    LET gain == AvgGain(close, period)
        loss == AvgLoss(close, period)
    IN Shift([t \in DOMAIN close |->
                LET rs == FDiv(gain[t], ReplaceZero(loss[t]))
                IN FSub(Rat(100), FDiv(Rat(100), FAdd(One, rs)))])

\* v.ewm(span=span, adjust=False).mean() of a column without nan: the update
\* is skipped when the new value equals the average
Ewm(v, span) ==
    LET alpha == Norm(2, span + 1)
        weighted[t \in DOMAIN v] ==
            IF t = 0 THEN v[0]
            ELSE IF weighted[t - 1] = v[t] THEN weighted[t - 1]
            ELSE FAdd(FMul(FSub(One, alpha), weighted[t - 1]), FMul(alpha, v[t]))
    IN weighted

\* a cross that also counts the lines touching
CrossUpOrTouch(macd_now, signal_now, macd_prev, signal_prev) ==
    NotBelow(macd_now, signal_now) /\ NotAbove(macd_prev, signal_prev)
\* (macd_now > signal_now) & (macd_prev <= signal_prev)
CrossUp(macd_now, signal_now, macd_prev, signal_prev) ==
    Above(macd_now, signal_now) /\ NotAbove(macd_prev, signal_prev)
\* (macd_now < signal_now) & (macd_prev >= signal_prev)
CrossDown(macd_now, signal_now, macd_prev, signal_prev) ==
    Below(macd_now, signal_now) /\ NotBelow(macd_prev, signal_prev)

BaselineDefaults == [rsi_buy |-> 30, rsi_sell |-> 70, risk_rr |-> 2]

Bit(x) == IF x THEN One ELSE Zero

\* the frame before the trim, with the columns rsi, oversold and overbought
\* of the working frame
BaselineFrame(b, p) ==
    LET close == Column(b, "Close")
        ma50 == Shift(RollingMean(close, 50))
        ma200 == Shift(RollingMean(close, 200))
        rsi == Rsi(close, 14)
        ewm12 == Ewm(close, 12)
        ewm26 == Ewm(close, 26)
        macd_line == [t \in DOMAIN b |-> FSub(ewm12[t], ewm26[t])]
        signal_line == Ewm(macd_line, 9)
        macd_now == Shift(macd_line)
        signal_now == Shift(signal_line)
        macd_prev == Shift(macd_now)
        signal_prev == Shift(signal_now)
    IN [t \in DOMAIN b |->
          LET macd_cross == Above(macd_now[t], signal_now[t])
              has_ma200 == ~IsNaN(ma200[t])
              trend_up == IF has_ma200 THEN FGt(ma50[t], ma200[t])
                          ELSE FGt(close[t], ma50[t])
              trend_down == IF has_ma200 THEN FLt(ma50[t], ma200[t])
                            ELSE FLt(close[t], ma50[t])
              oversold == FLe(rsi[t], Rat(p.rsi_buy))
              overbought == FGe(rsi[t], Rat(p.rsi_sell))
              macd_up == macd_cross
              macd_down == ~macd_cross
              macd_cross_up_evt ==
                  CrossUp(macd_now[t], signal_now[t], macd_prev[t], signal_prev[t])
              macd_cross_dn_evt ==
                  CrossDown(macd_now[t], signal_now[t], macd_prev[t], signal_prev[t])
              buy_rule == (trend_up /\ (oversold \/ macd_up)) \/ macd_cross_up_evt
              sell_rule == (trend_down /\ (overbought \/ macd_down)) \/ macd_cross_dn_evt
              conf_series ==
                  FAdd(FAdd(FMul(<<2, 5>>, Bit(trend_up)),
                            FMul(<<3, 10>>, Bit(~overbought))),
                       FMul(<<3, 10>>, Bit(macd_up)))
          IN LastSteps("baseline", close[t], buy_rule, sell_rule, conf_series)
             @@ [rsi |-> rsi[t], oversold |-> oversold, overbought |-> overbought]]

MeanReversionDefaults ==
    [bb_period |-> 20, bb_std |-> 2, rsi_period |-> 14,
     rsi_oversold |-> 25, rsi_overbought |-> 75]

\* (Close - bb_lower) / (bb_upper - bb_lower) < 0.2 with the bands at
\* sma -/+ k * sqrt(var): the width is 2 * k * std, so the position is below
\* 0.2 when Close lies more than 0.6 * k * std under sma; on a zero width the
\* quotient is -inf, nan or inf
NearLower(close, sma, var, k) ==
    LET dev == FSub(close, sma)
        reach == FMul(FMul(<<3, 5>>, Rat(k)), FMul(<<3, 5>>, Rat(k)))
    IN /\ IsFinite(dev) /\ IsFinite(var)
       /\ Sign(dev) < 0
       /\ (var = Zero \/ FGt(FMul(dev, dev), FMul(reach, var)))

\* (Close - bb_lower) / (bb_upper - bb_lower) > 0.8
NearUpper(close, sma, var, k) ==
    LET dev == FSub(close, sma)
        reach == FMul(FMul(<<3, 5>>, Rat(k)), FMul(<<3, 5>>, Rat(k)))
    IN /\ IsFinite(dev) /\ IsFinite(var)
       /\ Sign(dev) > 0
       /\ (var = Zero \/ FGt(FMul(dev, dev), FMul(reach, var)))

\* the rule columns that depend on Close alone
MeanReversionRules(b, p) ==
    LET close == Column(b, "Close")
        bb_sma == Shift(RollingMean(close, p.bb_period))
        bb_var == Shift(RollingVar(close, p.bb_period))
        rsi == Rsi(close, p.rsi_period)
    IN [t \in DOMAIN b |->
          [Close |-> close[t],
           rsi |-> rsi[t],
           oversold_rsi |-> FLt(rsi[t], Rat(p.rsi_oversold)),
           overbought_rsi |-> FGt(rsi[t], Rat(p.rsi_overbought)),
           near_bb_lower |-> t >= 1 /\ NearLower(close[t - 1], bb_sma[t - 1], bb_var[t - 1], p.bb_std),
           near_bb_upper |-> t >= 1 /\ NearUpper(close[t - 1], bb_sma[t - 1], bb_var[t - 1], p.bb_std)]]

\* the rows where the rules leave the BUY to the low_volatility flag
OpenRows(s) == {t \in DOMAIN s : s[t].oversold_rsi /\ s[t].near_bb_lower}

\* the frame before the trim, given the rule columns, the low_volatility
\* flags where they matter and the blended confidences
MeanReversionFrame(s, low_volatility, blend) ==
    [t \in DOMAIN s |->
        LET buy_rule == t \in DOMAIN low_volatility /\ low_volatility[t]
            sell_rule == s[t].overbought_rsi /\ s[t].near_bb_upper
        IN LastSteps("mean_reversion", s[t].Close, buy_rule, sell_rule, blend[t])
           @@ [rsi |-> s[t].rsi, rsi_safe |-> FillNa(s[t].rsi, Rat(50)),
               oversold |-> s[t].oversold_rsi, overbought |-> s[t].overbought_rsi]]

MeanReversionFrames(b, p) ==
    LET s == MeanReversionRules(b, p)
    IN {MeanReversionFrame(s, low_volatility, blend) :
           low_volatility \in [OpenRows(s) -> BOOLEAN],
           blend \in [DOMAIN b -> RawConfidences]}

(* MachineLearningStrategy on any series: the features and the ridge fits   *)
(* are not computed.  A row the loop reaches is skipped or given any         *)
(* prediction; the rows outside the loop's range keep the nan they were      *)
(* initialised with.                                                         *)

\* a loop that runs to the end of the frame
LoopRowsToEnd(n, p) == {i \in 0..(n - 1) : p.lookback_window <= i}
\* for i in range(lookback_window, len(s) - prediction_horizon)
LoopRows(n, p) ==
    {i \in 0..(n - 1) : p.lookback_window <= i /\ i < n - p.prediction_horizon}

\* what an iteration leaves in a row: nothing (continue), or a prediction of
\* 5% either way with full confidence, with or without technical confirmation
MlOutcomes ==
    {[ml_prediction |-> NaN, ml_confidence |-> NaN, technical_confirm |-> FALSE]}
    \cup {[ml_prediction |-> x, ml_confidence |-> One, technical_confirm |-> k] :
             x \in {<<-1, 20>>, <<1, 20>>}, k \in BOOLEAN}

MlFrameOver(b, p, outcome) ==
    LET close == Column(b, "Close")
    IN [t \in DOMAIN b |->
          LET ml_prediction == IF t \in DOMAIN outcome THEN outcome[t].ml_prediction ELSE NaN
              ml_confidence == IF t \in DOMAIN outcome THEN outcome[t].ml_confidence ELSE NaN
              technical_confirm == t \in DOMAIN outcome /\ outcome[t].technical_confirm
              buy_rule == /\ FGt(ml_prediction, <<1, 50>>)
                          /\ FGt(ml_confidence, p.confidence_threshold)
                          /\ technical_confirm
              sell_rule == /\ FLt(ml_prediction, <<-1, 50>>)
                           /\ FGt(ml_confidence, p.confidence_threshold)
                           /\ technical_confirm
              action == ActionOf(buy_rule, sell_rule)
              technical_score == IF action = "HOLD" THEN Half
                                 ELSE IF technical_confirm THEN One ELSE Zero
              confidence ==
                  FillNa(FAdd(FMul(<<7, 10>>, FillNa(ml_confidence, Zero)),
                              FMul(<<3, 10>>, technical_score)), Half)
          IN [Close |-> close[t], action |-> action,
              raw |-> confidence,
              confidence |-> NpClip(confidence, Zero, One),
              ml_prediction |-> ml_prediction,
              size |-> One]]

MlFrames(b, p) ==
    IF b = ConstantSeries(Len0(b)) THEN {MlFrame(b, p)}
    ELSE {MlFrameOver(b, p, outcome) : outcome \in [LoopRows(Len0(b), p) -> MlOutcomes]}

Computed == {"momentum", "machine_learning", "sentiment_analysis"}

\* the frames compute_signals can build before the trim
Frames(strategy, b, p) ==
    CASE strategy = "momentum" -> {MomentumFrame(b, p)}
      [] strategy = "machine_learning" -> MlFrames(b, p)
      [] strategy = "sentiment_analysis" ->
            {SentimentFrame(b, p, noise) : noise \in SentimentNoise(b)}
      [] strategy = "baseline" -> {BaselineFrame(b, p)}
      [] strategy = "mean_reversion" -> MeanReversionFrames(b, p)
      [] OTHER ->
            {f \in [DOMAIN b -> UNION {RowsOf(strategy, Rat(b[t].Close)) : t \in DOMAIN b}] :
                \A t \in DOMAIN b : f[t].Close = Rat(b[t].Close)}

(* A call compute_signals(df, params) *)

\* p = {defaults}; p.update(params)
Defaults(strategy) ==
    [warmup |-> DefaultWarmup(strategy)] @@
    (CASE strategy = "momentum" -> MomentumDefaults
       [] strategy = "machine_learning" -> MlDefaults
       [] strategy = "sentiment_analysis" -> SentimentDefaults
       [] strategy = "baseline" -> BaselineDefaults
       [] strategy = "mean_reversion" -> MeanReversionDefaults
       [] OTHER -> [warmup |-> DefaultWarmup(strategy)])
Update(p, params) == params @@ p

NoFrame == [t \in {} |-> [action |-> "HOLD"]]

CallSignals(strategy, b, columns, params) ==
    [fn |-> "compute_signals", pc |-> "compute_signals", strategy |-> strategy,
     df |-> b, columns |-> columns, params |-> Update(Defaults(strategy), params),
     out |-> NoFrame, exc |-> "none", ret |-> NoFrame]

\* for c in req_cols: if c not in s.columns: raise ValueError
CheckColumns(c) ==
    /\ calls[c].pc = "compute_signals"
    /\ Turn(c)
    /\ calls' = [calls EXCEPT ![c] =
          IF ReqCols(calls[c].strategy) \subseteq calls[c].columns
          THEN [@ EXCEPT !.pc = "indicators"]
          ELSE [@ EXCEPT !.pc = "raised", !.exc = "ValueError"]]
    /\ UNCHANGED <<df, runs, eng>>

\* the indicators, the rules and the output columns
Indicators(c) ==
    /\ calls[c].pc = "indicators"
    /\ Turn(c)
    /\ \E out \in Frames(calls[c].strategy, calls[c].df, calls[c].params) :
          calls' = [calls EXCEPT ![c] = [@ EXCEPT !.pc = "warmup", !.out = out]]
    /\ UNCHANGED <<df, runs, eng>>

\* the warmup trim and the return
Warmup(c) ==
    /\ calls[c].pc = "warmup"
    /\ Turn(c)
    /\ calls' = [calls EXCEPT ![c] =
          [@ EXCEPT !.pc = "returned",
                    !.ret = Trim(calls[c].out, calls[c].params.warmup)]]
    /\ UNCHANGED <<df, runs, eng>>

NextSignals ==
    \/ \E c \in DOMAIN calls : CheckColumns(c)
    \/ \E c \in DOMAIN calls : Indicators(c)
    \/ \E c \in DOMAIN calls : Warmup(c)

\* all the provider columns, or all but one
ColumnSets == {ProviderColumns} \cup {ProviderColumns \ {col} : col \in ProviderColumns}

\* params: nothing, or a warmup
WarmupParams == {<<>>} \cup {[warmup |-> w] : w \in 0..MaxWarmup}

\* one call of any strategy
InitSignals ==
    /\ df = <<>>
    /\ runs = {}
    /\ eng = <<>>
    /\ \E strategy \in Strategies, n \in 0..MaxFrameBars, columns \in ColumnSets,
          params \in WarmupParams :
          \E b \in (IF strategy = "momentum" THEN SignalSeries(n) ELSE {ConstantSeries(n)}) :
             calls = [c \in {1} |-> CallSignals(strategy, b, columns, params)]

SpecSignals == InitSignals /\ [][NextSignals]_vars

\* bars of the longest constant series handed to machine_learning and to
\* sentiment_analysis
MaxMlBars == 23
MaxSentimentBars == 5

\* a short learning window
MlShort == [lookback_window |-> 20, prediction_horizon |-> 1, warmup |-> 0]

\* the series and the parameters two calls of a computed strategy are compared on
PairSeries(strategy) ==
    CASE strategy = "momentum" -> UNION {SignalSeries(n) : n \in 0..MaxSignalBars}
      [] strategy = "machine_learning" -> {ConstantSeries(n) : n \in 0..MaxMlBars}
      [] OTHER -> {ConstantSeries(n) : n \in 0..MaxSentimentBars}

PairParams(strategy) ==
    {<<>>, [warmup |-> 0]} \cup (IF strategy = "machine_learning" THEN {MlShort} ELSE {})

\* the first k bars of b
Truncate(b, k) == [t \in 0..(k - 1) |-> b[t]]

\* b with bar t replaced
Replace(b, t, bar) == [b EXCEPT ![t] = bar]

\* the series the second call is made on: the same one, its first k bars, or
\* the same bars but one
Related(strategy, b) ==
    {b} \cup {Truncate(b, k) : k \in 0..Len0(b)}
    \cup (IF strategy = "momentum"
          THEN {Replace(b, t, bar) : t \in DOMAIN b, bar \in SignalBarValues}
          ELSE {})

\* two calls of a computed strategy, one after the other, with the same params
InitPairs ==
    /\ df = <<>>
    /\ runs = {}
    /\ eng = <<>>
    /\ \E strategy \in Computed :
          \E b1 \in PairSeries(strategy), params \in PairParams(strategy) :
             \E b2 \in Related(strategy, b1) :
                calls = [c \in {1, 2} |->
                           CallSignals(strategy, IF c = 1 THEN b1 ELSE b2,
                                       ProviderColumns, params)]

SpecPairs == InitPairs /\ [][NextSignals]_vars

\* Strategy.latest_signal: row = sigs.iloc[-1] on what compute_signals
\* returned, then the Signal made of the row; an exception of compute_signals
\* passes through
NoSignal == [action |-> "none"]

CallLatestSignal(strategy, b, columns, params) ==
    [CallSignals(strategy, b, columns, params) EXCEPT !.fn = "latest_signal"]
    @@ [signal |-> NoSignal]

LatestSignal(c) ==
    /\ calls[c].fn = "latest_signal"
    /\ calls[c].pc = "returned"
    /\ Turn(c)
    /\ LET sigs == calls[c].ret
       IN calls' = [calls EXCEPT ![c] =
             IF Len0(sigs) = 0
             THEN [@ EXCEPT !.pc = "raised", !.exc = "IndexError"]
             ELSE LET row == sigs[CHOOSE t \in DOMAIN sigs : \A u \in DOMAIN sigs : u <= t]
                  IN [@ EXCEPT !.pc = "signal",
                               !.signal = [action |-> row.action,
                                           confidence |-> row.confidence]]]
    /\ UNCHANGED <<df, runs, eng>>

NextLatest ==
    \/ \E c \in DOMAIN calls : CheckColumns(c)
    \/ \E c \in DOMAIN calls : Indicators(c)
    \/ \E c \in DOMAIN calls : Warmup(c)
    \/ \E c \in DOMAIN calls : LatestSignal(c)

\* bars of the longest series latest_signal is called on, and the longest
\* prediction horizon
MaxLatestBars == 4
MaxHorizon == 2

LatestBarValues ==
    {QuietBar, [Open |-> 2, High |-> 3, Low |-> 2, Close |-> 3, Volume |-> 2]}

\* the learning parameters: a horizon of at least one bar, a window of no or
\* one bar, no warmup or the default
LatestParams ==
    {[prediction_horizon |-> h, lookback_window |-> l] @@ w :
        h \in 1..MaxHorizon, l \in {0, 1}, w \in {<<>>, [warmup |-> 0]}}

\* one call latest_signal of the machine-learning strategy
InitLatest ==
    /\ df = <<>>
    /\ runs = {}
    /\ eng = <<>>
    /\ \E n \in 0..MaxLatestBars, params \in LatestParams,
          columns \in {ProviderColumns, ProviderColumns \ {"Volume"}} :
          \E b \in [0..(n - 1) -> LatestBarValues] :
             calls = [c \in {1} |->
                        CallLatestSignal("machine_learning", b, columns, params)]

SpecLatest == InitLatest /\ [][NextLatest]_vars

\* sessions without a range (open = high = low = close) at three price
\* levels; momentum is also run on doubled volume
RuleBarValues(strategy) ==
    {[Open |-> x, High |-> x, Low |-> x, Close |-> x, Volume |-> v] :
        x \in {1, 2, 5}, v \in (IF strategy = "momentum" THEN {1, 2} ELSE {1})}

RuleStrategies == {"baseline", "momentum", "mean_reversion"}

\* one call of the rule-based, the momentum or the mean-reversion strategy,
\* with its default warmup or without a warmup
InitRules ==
    /\ df = <<>>
    /\ runs = {}
    /\ eng = <<>>
    /\ \E strategy \in RuleStrategies, n \in 0..MaxSignalBars,
          params \in {<<>>, [warmup |-> 0]} :
          \E b \in [0..(n - 1) -> RuleBarValues(strategy)] :
             calls = [c \in {1} |-> CallSignals(strategy, b, ProviderColumns, params)]

SpecRules == InitRules /\ [][NextSignals]_vars

----------------------------------------------------------------------------
(* Properties of compute_signals *)

SignalsCall(c) == calls[c].fn = "compute_signals"
NRows(c) == Len0(calls[c].df)
WarmupOf(c) == calls[c].params.warmup
SameRow(r1, r2) == r1.action = r2.action /\ r1.confidence = r2.confidence

\* C11: in every row compute_signals returns, for every strategy, action is
\* one of BUY, SELL, HOLD and confidence lies in the closed interval [0, 1].
C11_SignalDomain ==
    \A c \in DOMAIN calls :
        (SignalsCall(c) /\ Returned(c)) =>
            \A t \in DOMAIN calls[c].ret :
                /\ calls[c].ret[t].action \in Actions
                /\ FLe(Zero, calls[c].ret[t].confidence)
                /\ FLe(calls[c].ret[t].confidence, One)

\* a returned row whose blended confidence was above 1 before the clip
C11_Witness ==
    \E c \in DOMAIN calls :
        /\ SignalsCall(c) /\ Returned(c)
        /\ \E t \in DOMAIN calls[c].ret :
              /\ FGt(calls[c].ret[t].raw, One)
              /\ calls[c].ret[t].confidence = One
              /\ calls[c].ret[t].action = "BUY"

\* C12 as stated: for every strategy, length n and warmup w, compute_signals
\* returns max(1, n - w) rows, and exactly the row of the last bar when
\* n <= w.
C12_TrimAsStated ==
    \A c \in DOMAIN calls :
        (SignalsCall(c) /\ Returned(c)) =>
            /\ Len0(calls[c].ret) = Max(1, NRows(c) - WarmupOf(c))
            /\ NRows(c) <= WarmupOf(c) => DOMAIN calls[c].ret = {NRows(c) - 1}

\* C12: whenever compute_signals returns, with n >= 1 bars and warmup w >= 0,
\* it returns the last max(1, n - w) rows of its frame, which is exactly the
\* row of the last bar when n <= w; for n = 0 it returns no row.
C12_Trim ==
    \A c \in DOMAIN calls :
        (SignalsCall(c) /\ Returned(c)) =>
            LET n == NRows(c)
                kept == Max(1, n - WarmupOf(c))
            IN /\ n = 0 => calls[c].ret = calls[c].out /\ Len0(calls[c].ret) = 0
               /\ n >= 1 =>
                     /\ DOMAIN calls[c].ret = (n - kept)..(n - 1)
                     /\ \A t \in DOMAIN calls[c].ret : calls[c].ret[t] = calls[c].out[t]
               /\ (n >= 1 /\ n <= WarmupOf(c)) => DOMAIN calls[c].ret = {n - 1}

\* two bars under a warmup of three: the row of the last bar alone
C12_Witness ==
    \E c \in DOMAIN calls :
        /\ SignalsCall(c) /\ Returned(c)
        /\ NRows(c) = 2 /\ WarmupOf(c) = 3
        /\ DOMAIN calls[c].ret = {1}

\* C13: when the series has at least one bar and no more bars than warmup,
\* compute_signals does not raise and the single row it returns has action
\* HOLD.
C13_ShortSeriesHold ==
    \A c \in DOMAIN calls :
        (SignalsCall(c) /\ Finished(calls[c]) /\ NRows(c) >= 1 /\ NRows(c) <= WarmupOf(c)) =>
            /\ Returned(c)
            /\ DOMAIN calls[c].ret = {NRows(c) - 1}
            /\ calls[c].ret[NRows(c) - 1].action = "HOLD"

SameCall(c1, c2) ==
    /\ calls[c1].strategy = calls[c2].strategy
    /\ calls[c1].params = calls[c2].params
    /\ calls[c1].columns = calls[c2].columns

\* a strategy whose frame is a function of the bars and the parameters
NoiseFree(c) == calls[c].strategy # "sentiment_analysis"

\* C14: the signals of the series truncated to its first k bars give bar k-1
\* the same action and confidence as the signals of the full series do
\* (noise left aside).
C14_TruncationInvariant ==
    (/\ Returned(1) /\ Returned(2) /\ SameCall(1, 2) /\ NoiseFree(1)
     /\ NRows(2) >= 1 /\ NRows(2) <= NRows(1)
     /\ calls[2].df = Truncate(calls[1].df, NRows(2))
     /\ (NRows(2) - 1) \in DOMAIN calls[1].ret
     /\ (NRows(2) - 1) \in DOMAIN calls[2].ret)
    => SameRow(calls[1].ret[NRows(2) - 1], calls[2].ret[NRows(2) - 1])

\* C15: two series of the same length that agree on every bar before t give
\* bar t the same action and confidence, whatever bar t itself is (noise left
\* aside).
C15_NoCurrentBar ==
    (/\ Returned(1) /\ Returned(2) /\ SameCall(1, 2) /\ NoiseFree(1)
     /\ NRows(1) = NRows(2))
    => \A t \in DOMAIN calls[1].ret \cap DOMAIN calls[2].ret :
          (\A k \in 0..(t - 1) : calls[1].df[k] = calls[2].df[k]) =>
              SameRow(calls[1].ret[t], calls[2].ret[t])

\* C16: two calls of compute_signals on identical inputs come back with
\* identical outputs, machine_learning excepted.
C16_Idempotent ==
    (/\ Finished(calls[1]) /\ Finished(calls[2]) /\ SameCall(1, 2)
     /\ calls[1].strategy # "machine_learning"
     /\ calls[1].df = calls[2].df)
    => /\ calls[1].pc = calls[2].pc
       /\ calls[1].exc = calls[2].exc
       /\ calls[1].ret = calls[2].ret

\* C17 as stated: every strategy raises, before any indicator is computed,
\* whenever one of the seven provider columns is absent.
C17_MissingColumnAsStated ==
    \A c \in DOMAIN calls :
        (SignalsCall(c) /\ calls[c].pc # "compute_signals"
         /\ calls[c].columns # ProviderColumns) =>
            calls[c].pc = "raised" /\ calls[c].out = NoFrame

\* the columns each strategy asks for
C17_Asked(strategy) ==
    IF strategy \in {"momentum", "pattern"}
    THEN {"Close", "Open", "High", "Low", "Volume", "Daily_Return", "Volatility"}
    ELSE IF strategy \in {"baseline", "mean_reversion"}
    THEN {"Close", "Open", "Daily_Return", "Volatility"}
    ELSE {"Close", "Open", "High", "Low", "Volume"}

\* C17: a strategy raises ValueError, before any indicator is computed,
\* exactly when a column of its own required list is absent: all seven
\* provider columns for momentum and pattern; Close, Open, Daily_Return,
\* Volatility for baseline and mean_reversion; Close, Open, High, Low, Volume
\* for the other seven.
C17_MissingColumn ==
    \A c \in DOMAIN calls :
        (SignalsCall(c) /\ calls[c].pc # "compute_signals") =>
            /\ (C17_Asked(calls[c].strategy) \ calls[c].columns # {}) <=>
                  (calls[c].pc = "raised" /\ calls[c].exc = "ValueError")
            /\ calls[c].pc = "raised" => calls[c].out = NoFrame /\ calls[c].ret = NoFrame

\* baseline raised for want of Volatility
C17_Witness ==
    \E c \in DOMAIN calls :
        /\ SignalsCall(c) /\ calls[c].strategy = "baseline"
        /\ calls[c].columns = ProviderColumns \ {"Volatility"}
        /\ calls[c].pc = "raised" /\ calls[c].exc = "ValueError"

\* C18: in every returned row a BUY has its stop below and its target above
\* the row's close, and a SELL has its stop above and its target below it.
C18_StopTargetSides ==
    \A c \in DOMAIN calls :
        (SignalsCall(c) /\ Returned(c)) =>
            \A t \in DOMAIN calls[c].ret :
                LET row == calls[c].ret[t]
                IN /\ row.action = "BUY" =>
                        FLt(row.stop, row.Close) /\ FGt(row.target, row.Close)
                   /\ row.action = "SELL" =>
                        FGt(row.stop, row.Close) /\ FLt(row.target, row.Close)

----------------------------------------------------------------------------
(* Properties of the trade-aware path of compute_metrics *)

Walking(c) == calls[c].pc = "pairs"
Walked(c) == /\ Returned(c) /\ calls[c].shape = "dict"
             /\ Len(calls[c].equity) > 0 /\ Len(calls[c].trades) > 0

Chronological(trades) ==
    \A i, j \in 1..Len(trades) : i < j => trades[i].date <= trades[j].date

----------------------------------------------------------------------------
(* Properties relating the legacy and the extended path *)

\* the float a kept value stands for is the same
SameValue(a, b) ==
    LET zero(v) == \/ v.kind = "literal"
                   \/ v.kind = "power" /\ v.base = Rat(1)
                   \/ v.kind = "root" /\ v.var = Zero
                   \/ v.kind = "ratio" /\ v.var = Zero /\ v.mean = Zero
    IN a = b \/ (zero(a) /\ zero(b))

\* b is a times 100
InPercent(a, b) ==
    \/ a.kind = "power" /\ b.kind = "power" /\ a.base = b.base /\ a.exp = b.exp
       /\ b.scale = Percent * a.scale
    \/ a.kind = "root" /\ b.kind = "root" /\ a.var = b.var /\ a.freq = b.freq
       /\ b.scale = Percent * a.scale

BothReturned == Returned(1) /\ Returned(2) /\ calls[1].equity = calls[2].equity

----------------------------------------------------------------------------
(* The worked example of BacktestEngine.run *)

\* C23 as stated: the BUY is filled at 101 giving 10000/101 shares, the SELL
\* at 103 giving (10000/101) * 103 in cash, and the final equity point equals
\* that cash.
C23_ExampleAsStated ==
    \A r \in runs :
        RunReturned(eng[r]) =>
            /\ Len(eng[r].trades) = 2
            /\ eng[r].trades[1].price = 101
            /\ eng[r].trades[1].shares = Norm(10000, 101)
            /\ eng[r].trades[2].price = 103
            /\ eng[r].cash = RatMul(Norm(10000, 101), Rat(103))
            /\ FinalEquity(eng[r]) = eng[r].cash

\* C23: with signals HOLD, BUY, HOLD, SELL, HOLD over 5 bars opening at 100,
\* 101, 102, 103, 104, no costs and a capital of 10000, run fills the BUY of
\* bar 1 at the open of bar 2 (102) giving 10000/102 shares, fills the SELL
\* of bar 3 at the open of bar 4 (104) giving (10000/102) * 104 in cash
\* (about 10196.08), and the final equity point, the engine being FLAT,
\* equals that cash.
C23_Example ==
    \A r \in runs :
        RunReturned(eng[r]) =>
            /\ Len(eng[r].trades) = 2
            /\ eng[r].trades[1] = [date |-> 2, action |-> "BUY", price |-> 102,
                                   shares |-> Norm(10000, 102)]
            /\ eng[r].trades[2] = [date |-> 4, action |-> "SELL", price |-> 104,
                                   shares |-> Norm(10000, 102)]
            /\ eng[r].cash = RatMul(Norm(10000, 102), Rat(104))
            /\ eng[r].pos = 0 /\ eng[r].shares = Zero
            /\ Len(eng[r].equity) = 4
            /\ FinalEquity(eng[r]) = eng[r].cash

\* the run came back, the last bar closing away from its open
C23_Witness ==
    \E r \in runs :
        /\ RunReturned(eng[r])
        /\ df[4].Close # df[4].Open
        /\ eng[r].equity[2].equity # eng[r].equity[3].equity
        /\ FinalEquity(eng[r]) = Norm(1040000, 102)

----------------------------------------------------------------------------
(* BacktestEngine.run on trimmed signals, while FLAT, and under costs *)

\* the first bar of a signal series: the warmup w of the strategy
FirstSignal(sig) == CHOOSE t \in DOMAIN sig : \A u \in DOMAIN sig : t <= u

InLoop(e) == e.pc = "loop" \/ RunReturned(e)

\* C28: when run is given the n-bar series and a signal series starting at
\* bar w (0 <= w < n), the bars missing from the signal series count as
\* HOLD: no trade is dated at a bar <= w, every equity point up to bar w
\* equals the initial capital, and the engine is FLAT until bar w is done.
C28_WarmupFlat ==
    \A r \in runs :
        LET e == eng[r]
        IN (InLoop(e) /\ Len0(e.signals) > 0) =>
              LET w == FirstSignal(e.signals)
              IN /\ \A k \in 1..Len(e.trades) : e.trades[k].date > w
                 /\ \A k \in 1..Len(e.equity) :
                       e.equity[k].date <= w =>
                           e.equity[k].equity = Rat(e.initial_capital)
                 /\ (e.pc = "loop" /\ e.i <= w + 1) =>
                       /\ e.pos = 0 /\ e.shares = Zero
                       /\ e.cash = Rat(e.initial_capital)

\* signals trimmed to start at bar 2 with a BUY, filled at bar 3
C28_Witness ==
    \E r \in runs :
        /\ RunReturned(eng[r])
        /\ eng[r].entry = "run"
        /\ NBars = 4
        /\ FirstSignal(eng[r].signals) = 2
        /\ eng[r].signals[2].action = "BUY"
        /\ Len(eng[r].trades) = 1 /\ eng[r].trades[1].date = 3
        /\ eng[r].equity[2] = [date |-> 2, equity |-> Rat(eng[r].initial_capital)]
        /\ df[0].Close # df[1].Close

LastEquity(e) ==
    IF e.equity = <<>> THEN Rat(e.initial_capital) ELSE FinalEquity(e)

\* no BUY on a bar that has a next bar to fill it at
NoBuyToFill(e) ==
    \A t \in DOMAIN e.signals : (t + 1) \in DOMAIN df => e.signals[t].action # "BUY"

\* C29: an iteration that starts and ends FLAT leaves the equity where it
\* was, whatever the bar's prices; and if no BUY can be filled (all signals
\* HOLD or SELL, or the only BUY on the last bar) the trade log is empty and
\* every equity point equals initial_capital.
C29_FlatEquity ==
    /\ [][\A r \in runs :
            (Stepped(r) /\ eng[r].pos = 0 /\ eng'[r].pos = 0) =>
                /\ FinalEquity(eng'[r]) = LastEquity(eng[r])
                /\ eng'[r].cash = eng[r].cash]_vars
    /\ [](\A r \in runs :
            (InLoop(eng[r]) /\ NoBuyToFill(eng[r])) =>
                /\ eng[r].trades = <<>>
                /\ \A k \in 1..Len(eng[r].equity) :
                      eng[r].equity[k].equity = Rat(eng[r].initial_capital))

\* four bars whose price moves, a SELL and a BUY on the last bar only
C29_Witness ==
    \E r \in runs :
        /\ RunReturned(eng[r])
        /\ NBars = 4
        /\ DOMAIN eng[r].signals = 0..3
        /\ eng[r].signals[3].action = "BUY"
        /\ eng[r].signals[1].action = "SELL"
        /\ df[1].Close # df[2].Close
        /\ df[2].Open # df[3].Open
        /\ eng[r].trades = <<>>
        /\ Len(eng[r].equity) = 3
        /\ FinalEquity(eng[r]) = Rat(eng[r].initial_capital)

\* the win-rate walk of compute_metrics over a trade log
RECURSIVE WalkTrades(_, _, _)
WalkTrades(e, all_trades, k) ==
    IF k > Len(all_trades) THEN e
    ELSE WalkTrades(PairTrade(e, all_trades[k]), all_trades, k + 1)

TradeLogWinRate(trades) ==
    LET e == WalkTrades([position |-> 0, buy_price |-> 0, winning_trades |-> 0,
                         total_trade_pairs |-> 0], SortByDate(trades), 1)
    IN WinRate(e.winning_trades, e.total_trade_pairs)

\* the trade log without the share counts
Fills(trades) ==
    [k \in 1..Len(trades) |->
        [date |-> trades[k].date, action |-> trades[k].action,
         price |-> trades[k].price]]

BothRunsReturned == \A r \in runs : RunReturned(eng[r])

\* C30: every trade records the raw open of its bar, so for fixed bars and
\* signals two runs under different fee_bps and slippage_bps log the same
\* dates, actions and prices, and the win rate compute_metrics derives from
\* the two trade logs is the same.
C30_WinRateCostFree ==
    /\ \A r \in runs :
          \A k \in 1..Len(eng[r].trades) :
              eng[r].trades[k].price = df[eng[r].trades[k].date].Open
    /\ BothRunsReturned =>
          \A r1, r2 \in runs :
              /\ Fills(eng[r1].trades) = Fills(eng[r2].trades)
              /\ TradeLogWinRate(eng[r1].trades) = TradeLogWinRate(eng[r2].trades)

\* a winning round trip logged by a free and by a costly run
C30_Witness ==
    /\ BothRunsReturned
    /\ eng[1].fee_bps + eng[1].slippage_bps = 0
    /\ eng[2].fee_bps + eng[2].slippage_bps > 0
    /\ Len(eng[1].trades) = 2
    /\ eng[1].trades[1].shares # eng[2].trades[1].shares
    /\ TradeLogWinRate(eng[2].trades) = Rat(Percent)
    /\ RatLess(FinalEquity(eng[2]), FinalEquity(eng[1]))

----------------------------------------------------------------------------
(* The comprehensive sweep: analysis/comprehensive_backtest.py *)

SweepTickers == {"AAPL", "MSFT"}
SweepStrategies == {"rule_based", "momentum"}
SweepParams == {1, 2}

\* the (ticker, strategy, parameter-set) tuples of a sweep
SweepTuples == SweepTickers \X SweepStrategies \X SweepParams

\* a use of the sweep: the module is loaded, then run_comprehensive_backtest
\* goes through the tuples; failing holds the tuples whose signal computation
\* or engine run fails
CallSweep(tuples, failing) ==
    [fn |-> "run_comprehensive_backtest", pc |-> "import", tuples |-> tuples,
     failing |-> failing, all_results |-> <<>>, exc |-> "none"]

\* the module is compiled before any of its code runs: the stray "]," after
\* the dictionary self.strategy_params closes is rejected by the parser
LoadModule(c) ==
    /\ calls[c].fn = "run_comprehensive_backtest"
    /\ calls[c].pc = "import"
    /\ calls' = [calls EXCEPT ![c].pc = "raised", ![c].exc = "SyntaxError"]
    /\ UNCHANGED <<df, runs, eng>>

InitSweep ==
    /\ df = <<>>
    /\ runs = {}
    /\ eng = <<>>
    /\ \E tuples \in SUBSET SweepTuples :
          \E failing \in SUBSET tuples :
             /\ tuples # {}
             /\ calls = <<CallSweep(tuples, failing)>>

NextSweep == \E c \in DOMAIN calls : LoadModule(c)

SpecSweep == InitSweep /\ [][NextSweep]_vars

\* the result records of a tuple
RecordsOf(c, tuple) ==
    {k \in 1..Len(calls[c].all_results) : calls[c].all_results[k].tuple = tuple}

\* C25: the sweep ends with exactly one result record for each tuple, with
\* status 'failed' for a tuple whose signal computation or engine run fails;
\* a failing tuple does not keep the remaining tuples from being executed.
C25_OneRecordPerTuple ==
    \A c \in DOMAIN calls :
        (calls[c].fn = "run_comprehensive_backtest" /\ calls[c].pc # "import") =>
            /\ calls[c].pc = "returned"
            /\ \A tuple \in calls[c].tuples :
                  /\ Cardinality(RecordsOf(c, tuple)) = 1
                  /\ \A k \in RecordsOf(c, tuple) :
                        (calls[c].all_results[k].status = "failed") <=>
                            (tuple \in calls[c].failing)

----------------------------------------------------------------------------
(* Properties of the rule-based, momentum and mean-reversion strategies *)

\* every bar is the same bar and has no range
ConstantBars(b) ==
    \A t \in DOMAIN b :
        /\ b[t] = b[0]
        /\ b[t].Open = b[t].Close /\ b[t].High = b[t].Close /\ b[t].Low = b[t].Close

\* the frame of call c has been computed
Framed(c) == SignalsCall(c) /\ calls[c].pc \in {"warmup", "returned"}

\* C24: on a bar series whose price is the same on every bar (open = high =
\* low = close) and whose volume is constant, the rule-based, momentum and
\* mean-reversion strategies compute HOLD on every row, so every row they
\* return is HOLD.
C24_ConstantHold ==
    \A c \in DOMAIN calls :
        (Framed(c) /\ calls[c].strategy \in RuleStrategies /\ ConstantBars(calls[c].df)) =>
            /\ \A t \in DOMAIN calls[c].out : calls[c].out[t].action = "HOLD"
            /\ \A t \in DOMAIN calls[c].ret : calls[c].ret[t].action = "HOLD"

\* the rule-based strategy returned the three rows of a constant series
C24_Witness ==
    \E c \in DOMAIN calls :
        /\ SignalsCall(c) /\ Returned(c)
        /\ calls[c].strategy = "baseline"
        /\ ConstantBars(calls[c].df)
        /\ NRows(c) = 3
        /\ DOMAIN calls[c].ret = 0..2
        /\ calls[c].ret[2].action = "HOLD"

RsiPeriod(c) ==
    IF calls[c].strategy = "mean_reversion" THEN calls[c].params.rsi_period ELSE 14

\* the rows whose RSI comes from a window with a zero average loss
ZeroLossRows(c) ==
    {t \in DOMAIN calls[c].df :
        /\ t >= 1
        /\ AvgLoss(Column(calls[c].df, "Close"), RsiPeriod(c))[t - 1] = Zero}

RsiStrategies == {"baseline", "mean_reversion"}

\* C26 as stated: when the rolling average loss is zero, the RSI the rules
\* read is a defined neutral value and neither the oversold nor the
\* overbought condition is true.
C26_NeutralRsiAsStated ==
    \A c \in DOMAIN calls :
        (Framed(c) /\ calls[c].strategy \in RsiStrategies) =>
            \A t \in ZeroLossRows(c) :
                /\ IsFinite(calls[c].out[t].rsi)
                /\ ~calls[c].out[t].oversold
                /\ ~calls[c].out[t].overbought

\* C26: when the rolling average loss is zero, the RSI the rules of the
\* rule-based and mean-reversion strategies read is nan (the zero loss is
\* replaced by nan before the division); both comparisons with nan are
\* false, so neither the oversold nor the overbought condition is true.
\* Mean reversion puts the neutral 50 in place of nan for its confidence
\* only.
C26_NanRsi ==
    \A c \in DOMAIN calls :
        (Framed(c) /\ calls[c].strategy \in RsiStrategies) =>
            \A t \in ZeroLossRows(c) :
                /\ IsNaN(calls[c].out[t].rsi)
                /\ ~calls[c].out[t].oversold
                /\ ~calls[c].out[t].overbought
                /\ calls[c].strategy = "mean_reversion" =>
                      calls[c].out[t].rsi_safe = Rat(50)

\* a window of rising closes: gains and no loss
C26_Witness ==
    \E c \in DOMAIN calls :
        /\ Framed(c)
        /\ calls[c].strategy \in RsiStrategies
        /\ \E t \in ZeroLossRows(c) :
              /\ FGt(AvgGain(Column(calls[c].df, "Close"), RsiPeriod(c))[t - 1], Zero)
              /\ IsNaN(calls[c].out[t].rsi)

----------------------------------------------------------------------------
(* Properties of MachineLearningStrategy and Strategy.latest_signal *)

LatestCall(c) ==
    calls[c].fn = "latest_signal" /\ calls[c].strategy = "machine_learning"

\* the rows the loop of predictions never reaches
Unreached(c, t) ==
    \/ t >= NRows(c) - calls[c].params.prediction_horizon
    \/ t < calls[c].params.lookback_window

\* C27 as stated: with a horizon of at least one bar and any bar series, the
\* last h rows (and those before lookback_window) have no prediction and are
\* HOLD, and latest_signal always returns HOLD.
C27_LatestHoldAsStated ==
    \A c \in DOMAIN calls :
        (LatestCall(c) /\ calls[c].params.prediction_horizon >= 1
           /\ ReqCols(calls[c].strategy) \subseteq calls[c].columns) =>
            /\ calls[c].pc \in {"warmup", "returned", "signal", "raised"} =>
                  \A t \in DOMAIN calls[c].out :
                      Unreached(c, t) => calls[c].out[t].action = "HOLD"
            /\ calls[c].pc \in {"signal", "raised"} =>
                  /\ calls[c].pc = "signal"
                  /\ calls[c].signal.action = "HOLD"

\* C27: with a horizon h >= 1 and the required columns, no row t >= n - h
\* and no row t < lookback_window is given a prediction, so its action is
\* HOLD in the frame and in the rows returned; latest_signal returns HOLD on
\* every series of at least one bar and raises IndexError on the empty
\* series, for which compute_signals returns no row.
C27_LatestHold ==
    \A c \in DOMAIN calls :
        (LatestCall(c) /\ calls[c].params.prediction_horizon >= 1
           /\ ReqCols(calls[c].strategy) \subseteq calls[c].columns) =>
            /\ calls[c].pc \in {"warmup", "returned", "signal", "raised"} =>
                  \A t \in DOMAIN calls[c].out :
                      Unreached(c, t) =>
                          /\ calls[c].out[t].action = "HOLD"
                          /\ (t \in DOMAIN calls[c].ret /\ calls[c].pc # "warmup") =>
                                calls[c].ret[t].action = "HOLD"
            /\ calls[c].pc = "signal" =>
                  /\ NRows(c) >= 1
                  /\ calls[c].signal.action = "HOLD"
            /\ calls[c].pc = "raised" =>
                  /\ NRows(c) = 0
                  /\ calls[c].exc = "IndexError"

\* latest_signal came back with HOLD from a frame holding a BUY on an earlier
\* row
C27_Witness ==
    \E c \in DOMAIN calls :
        /\ LatestCall(c)
        /\ calls[c].pc = "signal"
        /\ calls[c].signal.action = "HOLD"
        /\ NRows(c) = 4
        /\ calls[c].params.prediction_horizon = 2
        /\ calls[c].out[1].action = "BUY"
        /\ DOMAIN calls[c].ret = 0..3

====
